---- MODULE Spec2Model ----
(***************************************************************************)
(* A model of the LinkedIn scraping scripts:                               *)
(*   - crawl_parallel of google_search.py (windowed batch crawl),          *)
(*   - the profile loop of LinkedInScraper.scrape_profiles (deduplication) *)
(*   - the cookie store and the login flow of LinkedInJobScraper,          *)
(*   - the login of the entry points scrape_profiles of                    *)
(*     linkedin_profile_scraper.py and debug_scrape of debug_scraper.py,   *)
(*   - scroll_page of LinkedInScraper and LinkedInJobScraper,              *)
(*   - extract_linkedin_profiles of google_search.py,                      *)
(*   - the retry loop of LinkedInScraper.search_and_scrape_profile,        *)
(*   - the start and the release of the browser in crawl_parallel,         *)
(*     LinkedInJobScraper.scrape_jobs and                                  *)
(*     LinkedInProfileScraper.scrape_profiles,                             *)
(*   - the tests by which check_login_status and perform_login of          *)
(*     crawler.py, linkedin_jobs.py and linkedin_login.py tell a           *)
(*     logged-in page from another,                                        *)
(*   - one run of LinkedInJobScraper.scrape_jobs and of                    *)
(*     LinkedInScraper.scrape_profiles from the login to the last record,  *)
(*   - save_profiles_to_csv of google_search.py.                           *)
(* Each part has its own specification over the shared variables; the      *)
(* variables of the other parts stay at their idle values.                 *)
(***************************************************************************)
EXTENDS Integers, Sequences, FiniteSets, TLC

VARIABLES
    \* ---- crawl_parallel (google_search.py)
    urls,            \* the argument urls: a sequence of URLs
    max_concurrent,  \* the argument max_concurrent
    i,               \* the loop variable of `for i in range(0, len(urls), max_concurrent)`
    cpc,             \* position of the crawl_parallel coroutine
    status,          \* per target index: "pending", "running" (arun dispatched), "returned"
    results,         \* per target index: what gather returned for it
    outcomes,        \* the per-item outcome lines printed so far, in order
    windows,         \* the batches dispatched so far (each a sequence of target indices)
    all_profiles,    \* the list all_profiles
    csv,             \* the list last handed to save_profiles_to_csv
    crawlerOpen,     \* TRUE between crawler.start() and crawler.close()
    mem_samples,     \* number of calls of log_memory so far
    oplog,           \* history: the samples, dispatches, saves and delays, in order
    session_ids,     \* history: the number in the session_id of every arun created
    \* ---- the profile loop of LinkedInScraper.scrape_profiles (linkedin_login.py)
    profile_elements,   \* the elements query_selector_all returned
    max_profiles,       \* the argument max_profiles
    pos,                \* number of elements of profile_elements[:max_profiles] handled
    processed_urls,     \* the set processed_urls
    profiles_processed, \* the counter profiles_processed
    printed,            \* the profiles printed so far: [n, url, elem]
    seen,               \* the hrefs that reached the duplicate test: [href, new, elem]
    no_href_warnings,   \* number of "No href found for profile element" warnings logged
    dpc,                \* position of the loop: "idle", "loop", "done"
    \* ---- the cookie file and the login flow of LinkedInJobScraper (linkedin_jobs.py)
    file,            \* cookies.json: [exists, data], data a sequence of JSON tokens
    fileOrigin,      \* history: the save that wrote the file, if it completed
    run,             \* number of the current run of scrape_jobs
    spc,             \* position of scrape_jobs in the current run
    ctx,             \* the cookies of the browser context
    pageUrl,         \* page.url
    cookies_loaded,  \* the local cookies_loaded: "unset", "true", "false"
    checkResult,     \* what check_login_status returned: "unset", "true", "false"
    loginResult,     \* what perform_login returned: "unset", "true", "false"
    injected,        \* history: the cookies context.add_cookies took from load_cookies
    add_raised,      \* history: context.add_cookies raised in this run
    saving,          \* the local cookies of save_cookies
    saveCalls,       \* history: calls of save_cookies in this run
    loginAttempts,   \* history: calls of perform_login in this run
    authTrace,       \* history: the authentication states this run went through
    scraped,         \* TRUE when this run entered the scraping branch
    \* ---- the other entry points that log in (linkedin_profile_scraper.py, debug_scraper.py)
    entry,           \* the script that is running
    \* ---- scroll_page (linkedin_login.py, linkedin_jobs.py)
    pageKind,        \* what makes the page load more: "on_bottom" or "on_wait"
    growth,          \* the page: what each further load adds to the document extent
    consumed,        \* number of loads of the page so far
    height,          \* document.body.scrollHeight of the page
    prev_height,     \* the local prev_height
    new_height,      \* the local new_height
    scpc,            \* position of scroll_page
    steps,           \* history: number of measurements made inside the loop
    backs,           \* history: number of backward scrolls made
    lastOps,         \* history: the last three page operations
    exitBy,          \* how scroll_page left its loop: "none", "break", "exception"
    propagated,      \* TRUE when scroll_page let an exception out
    caller,          \* position of the caller of scroll_page
    \* ---- extract_linkedin_profiles (google_search.py)
    entries,          \* history: the entries the input text was put together from
    markdown_content, \* the argument markdown_content: a sequence of tokens
    profiles,         \* the list the function returned
    epc,              \* position of the call: "idle", "call", "returned"
    \* ---- the retry loop of search_and_scrape_profile (linkedin_login.py)
    attempt,         \* the loop variable of `for attempt in range(max_retries)`
    rpc,             \* position of search_and_scrape_profile
    attemptLog,      \* history: the outcome of every attempt made, in order
    returned,        \* what the function returned: "unset", "markdown", "None"
    \* ---- the browser of crawl_parallel, scrape_jobs and scrape_profiles
    fn,              \* the function that is running
    relpc,           \* its position
    browser,         \* the browser (crawler): "None", "open" or "closed"
    scope,           \* TRUE inside `async with async_playwright()`
    closeCalls,      \* history: number of calls of browser.close() / crawler.close()
    pending,         \* the exception on its way out: "none" or its class
    todo,            \* number of steps of the body still to run
    ended,           \* how the function ended: "no", "returned", "raised"
    \* ---- the login tests (crawler.py, linkedin_jobs.py, linkedin_login.py)
    script,          \* the script whose tests are applied
    pageState,       \* the page both tests look at: [url, username, feed_update, identity]
    arun_success,    \* result.success of the crawler.arun that ran the js_code
    check_verdict,   \* what check_login_status made of the page: "unset", "true", "false"
    login_verdict,   \* what perform_login made of the page: "unset", "true", "false"
    \* ---- one run of scrape_jobs (linkedin_jobs.py) or scrape_profiles (linkedin_login.py)
    flow_fn,         \* the function that runs: "scrape_jobs" or "scrape_profiles"
    fpc,             \* position of the function
    flowUrl,         \* page.url, a sequence of tokens
    auth_returns,    \* history: what check_login_status and perform_login returned
    stages,          \* history: the steps after the branch, in order
    page_elements,   \* the list query_selector_all returned
    flow_max,        \* the argument max_profiles of scrape_profiles
    job_i,           \* the loop variable i of scrape_jobs; the elements handled in scrape_profiles
    jobs_data,       \* per element of the current batch: "pending", "None" or "data"
    extracted,       \* history: per element, how often its extraction was started
    flow_urls,       \* the set processed_urls of scrape_profiles
    tested,          \* history: the elements whose URL went through the duplicate test
    emitted,         \* history: the records printed: [idx, elem]
    \* ---- save_profiles_to_csv (google_search.py)
    rows             \* the rows written after the header, strings as sequences of characters

crawlVars == <<urls, max_concurrent, i, cpc, status, results, outcomes, windows,
               all_profiles, csv, crawlerOpen, mem_samples, oplog,
               session_ids>>

dedupVars == <<profile_elements, max_profiles, pos, processed_urls, profiles_processed,
               printed, seen, no_href_warnings, dpc>>

sessionVars == <<file, fileOrigin, run, spc, ctx, pageUrl, cookies_loaded, checkResult,
                 loginResult, injected, add_raised, saving, saveCalls, loginAttempts, authTrace, scraped>>

entryVars == <<entry>>

scrollVars == <<pageKind, growth, consumed, height, prev_height, new_height, scpc,
                steps, backs, lastOps, exitBy, propagated, caller>>

extractVars == <<entries, markdown_content, profiles, epc>>

retryVars == <<attempt, rpc, attemptLog, returned>>

releaseVars == <<fn, relpc, browser, scope, closeCalls, pending, todo, ended>>

classVars == <<script, pageState, arun_success, check_verdict, login_verdict>>

flowVars == <<flow_fn, fpc, flowUrl, auth_returns, stages, page_elements, flow_max, job_i,
              jobs_data, extracted, flow_urls, tested, emitted>>

exportVars == <<rows>>

lateVars == <<flowVars, exportVars>>

moreVars == <<releaseVars, classVars, lateVars>>

\* The variables of the parts added to the three above.
auxVars == <<entryVars, scrollVars, extractVars, retryVars, moreVars>>

vars == <<crawlVars, dedupVars, sessionVars, auxVars>>

(***************************************************************************)
(* Bounds of the model.                                                    *)
(***************************************************************************)
MaxTargets == 5
MaxConcurrent == 3
MaxElements == 3
MaxProfiles == 3
MaxRuns == 2
MaxGrowth == 3
MaxEntries == 2

(***************************************************************************)
(* URLs are sequences of tokens: the '+' separators of the query string    *)
(* are tokens of their own, the text between them is one token.            *)
(***************************************************************************)
UrlAmazon == <<"https://www.bing.com/search?", "q=hr", "+", "amazon", "+", "linkedin", "+", "site:linkedin.com/in/">>
UrlOther  == <<"https://www.bing.com/search?", "q=", "engineer", "+", "linkedin">>
TargetUrls == {UrlAmazon, UrlOther}

\* re.search(r'q=hr\+([^+]+)\+linkedin', url): TRUE iff the pattern occurs.
SearchQueryMatches(url) ==
    \E p \in 1..Len(url) : \E q \in (p + 3)..(Len(url) - 1) :
        /\ url[p] = "q=hr"
        /\ url[p + 1] = "+"
        /\ \A k \in (p + 2)..(q - 1) : url[k] # "+"
        /\ url[q] = "+"
        /\ url[q + 1] = "linkedin"

\* What one crawler.arun task can hand to gather(return_exceptions=True):
\* an exception object, a result with success False, or a successful result
\* from whose markdown extract_linkedin_profiles returns a list of profiles.
ProfileLists == {<<"in/jane">>}
CrawlResults ==
    {[kind |-> "exception", profiles |-> <<>>], [kind |-> "unsuccessful", profiles |-> <<>>]}
    \cup {[kind |-> "success", profiles |-> ps] : ps \in ProfileLists}
NoResult == [kind |-> "none", profiles |-> <<>>]

Min(a, b) == IF a < b THEN a ELSE b

\* Mutation of the slice: one item too many.
BatchAtWide(start, c, n) == [k \in 1..(Min(start + c + 1, n) - start) |-> start + k]

\* urls[i:i + max_concurrent] as the sequence of (1-based) target indices.
BatchAt(start, c, n) == [k \in 1..(Min(start + c, n) - start) |-> start + k]

\* The batch of the current iteration.
batch == BatchAt(i, max_concurrent, Len(urls))

Range(s) == {s[k] : k \in 1..Len(s)}

SeqsUpTo(S, n) == UNION {[1..m -> S] : m \in 0..n}

\* The state of a part that is not running.
CrawlIdle ==
    /\ urls = <<>>
    /\ max_concurrent = 1
    /\ i = 0
    /\ cpc = "idle"
    /\ status = <<>>
    /\ results = <<>>
    /\ outcomes = <<>>
    /\ windows = <<>>
    /\ all_profiles = <<>>
    /\ csv = <<>>
    /\ crawlerOpen = FALSE
    /\ mem_samples = 0
    /\ oplog = <<>>
    /\ session_ids = <<>>

DedupIdle ==
    /\ profile_elements = <<>>
    /\ max_profiles = 0
    /\ pos = 0
    /\ processed_urls = {}
    /\ profiles_processed = 0
    /\ printed = <<>>
    /\ seen = <<>>
    /\ no_href_warnings = 0
    /\ dpc = "idle"

\* The page of a context that has not navigated yet.
BlankUrl == <<"about:blank">>

NoFile == [exists |-> FALSE, data |-> <<>>]
NoOrigin == [complete |-> FALSE, cookies |-> <<>>, run |-> 0]

\* The per-run locals of scrape_jobs before the run has started.
RunFresh ==
    /\ ctx = <<>>
    /\ pageUrl = BlankUrl
    /\ cookies_loaded = "unset"
    /\ checkResult = "unset"
    /\ loginResult = "unset"
    /\ injected = <<>>
    /\ add_raised = FALSE
    /\ saving = <<>>
    /\ saveCalls = 0
    /\ loginAttempts = 0
    /\ authTrace = <<>>
    /\ scraped = FALSE

SessionIdle ==
    /\ file = NoFile
    /\ fileOrigin = NoOrigin
    /\ run = 0
    /\ spc = "idle"
    /\ RunFresh

EntryIdle == entry = "none"

ScrollIdle ==
    /\ pageKind = "none"
    /\ growth = <<>>
    /\ consumed = 0
    /\ height = 0
    /\ prev_height = 0
    /\ new_height = 0
    /\ scpc = "idle"
    /\ steps = 0
    /\ backs = 0
    /\ lastOps = <<"none", "none", "none">>
    /\ exitBy = "none"
    /\ propagated = FALSE
    /\ caller = "idle"

ExtractIdle ==
    /\ entries = <<>>
    /\ markdown_content = <<>>
    /\ profiles = <<>>
    /\ epc = "idle"

RetryIdle ==
    /\ attempt = 0
    /\ rpc = "idle"
    /\ attemptLog = <<>>
    /\ returned = "unset"

ReleaseIdle ==
    /\ fn = "none"
    /\ relpc = "idle"
    /\ browser = "None"
    /\ scope = FALSE
    /\ closeCalls = 0
    /\ pending = "none"
    /\ todo = 0
    /\ ended = "no"

NoPage == [url |-> <<>>, username |-> FALSE, feed_update |-> FALSE, identity |-> FALSE]

ClassIdle ==
    /\ script = "none"
    /\ pageState = NoPage
    /\ arun_success = FALSE
    /\ check_verdict = "unset"
    /\ login_verdict = "unset"

FlowIdle ==
    /\ flow_fn = "none"
    /\ fpc = "idle"
    /\ flowUrl = <<>>
    /\ auth_returns = <<>>
    /\ stages = <<>>
    /\ page_elements = <<>>
    /\ flow_max = 0
    /\ job_i = 0
    /\ jobs_data = <<>>
    /\ extracted = <<>>
    /\ flow_urls = {}
    /\ tested = {}
    /\ emitted = <<>>

ExportIdle == rows = <<>>

LateIdle == FlowIdle /\ ExportIdle

MoreIdle == ReleaseIdle /\ ClassIdle /\ LateIdle

AuxIdle == EntryIdle /\ ScrollIdle /\ ExtractIdle /\ RetryIdle /\ MoreIdle

CrawlInit ==
    /\ DedupIdle
    /\ SessionIdle
    /\ AuxIdle
    /\ urls \in SeqsUpTo(TargetUrls, MaxTargets)
    /\ max_concurrent \in 1..MaxConcurrent
    /\ i = 0
    /\ cpc = "start"
    /\ status = [k \in 1..Len(urls) |-> "pending"]
    /\ results = [k \in 1..Len(urls) |-> NoResult]
    /\ outcomes = <<>>
    /\ windows = <<>>
    /\ all_profiles = <<>>
    /\ csv = <<>>
    /\ crawlerOpen = FALSE
    /\ mem_samples = 0
    /\ oplog = <<>>
    /\ session_ids = <<>>

\* await crawler.start()
CrawlerStart ==
    /\ cpc = "start"
    /\ crawlerOpen' = TRUE
    /\ cpc' = "loop"
    /\ UNCHANGED <<urls, max_concurrent, i, status, results, outcomes, windows,
                   all_profiles, csv>>
    /\ UNCHANGED <<mem_samples, oplog, session_ids>>
    /\ UNCHANGED <<dedupVars, sessionVars, auxVars>>

\* Mutation: the session id counts within the window only.
SessionIdInWindow(start, j) == j

\* session_id = f"profile_session_{i + j}": the number in the id.
SessionId(start, j) == start + j

\* One iteration head: slice the batch, create one arun task per item, sample
\* the memory, and hand the tasks to asyncio.gather, which schedules all of them.
DispatchWindow ==
    /\ cpc = "loop"
    /\ i < Len(urls)
    /\ windows' = Append(windows, batch)
    /\ status' = [k \in 1..Len(urls) |-> IF k \in Range(batch) THEN "running" ELSE status[k]]
    /\ mem_samples' = mem_samples + 1
    /\ oplog' = oplog \o <<"sample", "dispatch">>
    /\ session_ids' = session_ids \o [n \in 1..Len(batch) |-> SessionId(i, n - 1)]
    /\ cpc' = "gather"
    /\ UNCHANGED <<urls, max_concurrent, i, results, outcomes, all_profiles, csv,
                   crawlerOpen>>
    /\ UNCHANGED <<dedupVars, sessionVars, auxVars>>

\* One dispatched arun finishes, with an exception or a result.
TaskReturns(k, r) ==
    /\ cpc = "gather"
    /\ status[k] = "running"
    /\ status' = [status EXCEPT ![k] = "returned"]
    /\ results' = [results EXCEPT ![k] = r]
    /\ UNCHANGED <<urls, max_concurrent, i, cpc, outcomes, windows, all_profiles, csv,
                   crawlerOpen>>
    /\ UNCHANGED <<mem_samples, oplog, session_ids>>
    /\ UNCHANGED <<dedupVars, sessionVars, auxVars>>

\* Mutation of gather: it returns as soon as one awaitable has returned.
GatherAny == \E k \in Range(batch) : status[k] = "returned"

\* gather returns only when every awaitable of the batch has returned.
GatherDone == \A k \in Range(batch) : status[k] = "returned"

\* The outcome line printed for one (url, result) pair of the zip loop.
OutcomeOf(k) ==
    [target |-> k,
     kind |-> CASE results[k].kind = "exception" -> "Error"
                [] results[k].kind = "success" -> "Success"
                [] OTHER -> "Failed"]

\* The zip loop raises at `re.search(...).group(1)` for a successful result
\* whose URL does not hold the query pattern.
Raises(k) == results[k].kind = "success" /\ ~SearchQueryMatches(urls[k])

\* Number of items of the batch the zip loop reaches: all of them, or up to
\* and including the first one that raises.
RECURSIVE Reached(_, _)
Reached(b, k) ==
    IF k > Len(b) THEN Len(b)
    ELSE IF Raises(b[k]) THEN k
    ELSE Reached(b, k + 1)

RECURSIVE Extend(_, _, _)
Extend(acc, b, k) ==
    IF k > Len(b) \/ Raises(b[k]) THEN acc
    ELSE Extend(acc \o results[b[k]].profiles, b, k + 1)

\* Mutation: only the profiles of the first save ever reach the CSV file.
SavedAfterFirstOnly(profs, old) == IF old = <<>> THEN profs ELSE old

\* `if all_profiles: save_profiles_to_csv(all_profiles, ...)`: what the CSV
\* file holds after it, given what it held before.
SavedAfter(profs, old) == IF profs # <<>> THEN profs ELSE old

\* After gather: the memory sample, the zip loop over (url, result), then the
\* CSV save of all_profiles when it is not empty.
ProcessResults ==
    /\ cpc = "gather"
    /\ GatherDone
    /\ mem_samples' = mem_samples + 1
    /\ LET reached == Reached(batch, 1)
           crashed == \E k \in 1..Len(batch) : Raises(batch[k])
           profs == Extend(all_profiles, batch, 1)
       IN  /\ outcomes' = outcomes \o [k \in 1..reached |-> OutcomeOf(batch[k])]
           /\ all_profiles' = profs
           /\ IF crashed
              THEN /\ cpc' = "raising"
                   /\ csv' = csv
                   /\ oplog' = Append(oplog, "sample")
              ELSE /\ cpc' = "sleep"
                   /\ csv' = SavedAfter(profs, csv)
                   /\ oplog' = oplog \o (IF profs # <<>> THEN <<"sample", "save">>
                                                         ELSE <<"sample">>)
    /\ UNCHANGED <<urls, max_concurrent, i, status, results, windows, crawlerOpen,
                   session_ids>>
    /\ UNCHANGED <<dedupVars, sessionVars, auxVars>>

\* Mutation: the next window follows without the delay.
SleepDoneNoDelay ==
    /\ cpc = "sleep"
    /\ i' = i + max_concurrent
    /\ cpc' = "loop"
    /\ UNCHANGED <<urls, max_concurrent, status, results, outcomes, windows,
                   all_profiles, csv, crawlerOpen>>
    /\ UNCHANGED <<mem_samples, oplog, session_ids>>
    /\ UNCHANGED <<dedupVars, sessionVars, auxVars>>

\* await asyncio.sleep(2), then the next value of range().
SleepDone ==
    /\ cpc = "sleep"
    /\ oplog' = Append(oplog, "sleep")
    /\ i' = i + max_concurrent
    /\ cpc' = "loop"
    /\ UNCHANGED <<urls, max_concurrent, status, results, outcomes, windows,
                   all_profiles, csv, crawlerOpen>>
    /\ UNCHANGED <<mem_samples, session_ids>>
    /\ UNCHANGED <<dedupVars, sessionVars, auxVars>>

\* The loop is exhausted: the finally block closes the crawler, the function returns.
LoopExit ==
    /\ cpc = "loop"
    /\ i >= Len(urls)
    /\ crawlerOpen' = FALSE
    /\ cpc' = "done"
    /\ UNCHANGED <<urls, max_concurrent, i, status, results, outcomes, windows,
                   all_profiles, csv>>
    /\ UNCHANGED <<mem_samples, oplog, session_ids>>
    /\ UNCHANGED <<dedupVars, sessionVars, auxVars>>

\* An exception leaves the try block: finally closes the crawler and the
\* exception propagates to the caller.
FinallyRaise ==
    /\ cpc = "raising"
    /\ crawlerOpen' = FALSE
    /\ cpc' = "raised"
    /\ UNCHANGED <<urls, max_concurrent, i, status, results, outcomes, windows,
                   all_profiles, csv>>
    /\ UNCHANGED <<mem_samples, oplog, session_ids>>
    /\ UNCHANGED <<dedupVars, sessionVars, auxVars>>

CrawlNext ==
    \/ CrawlerStart
    \/ DispatchWindow
    \/ \E k \in 1..Len(urls) : \E r \in CrawlResults : TaskReturns(k, r)
    \/ ProcessResults
    \/ SleepDone
    \/ LoopExit
    \/ FinallyRaise

SpecCrawl == CrawlInit /\ [][CrawlNext]_vars

(***************************************************************************)
(* Claims about crawl_parallel, checked under SpecCrawl.                   *)
(***************************************************************************)
Running == {k \in 1..Len(urls) : status[k] = "running"}
CrawlEnded == cpc \in {"done", "raised"}
CeilDiv(n, c) == (n + c - 1) \div c

RECURSIVE Flatten(_)
Flatten(ws) == IF ws = <<>> THEN <<>> ELSE Head(ws) \o Flatten(Tail(ws))

\* The windows dispatched so far are, in input order, the first of the
\* consecutive chunks of the targets: every window has exactly
\* max_concurrent items except the last of the ceil(n/c) windows, which has
\* n mod c items when that is not zero.
WindowsArePrefixOfPartition ==
    LET n == Len(urls)
        c == max_concurrent
        flat == Flatten(windows)
    IN  /\ \A k \in 1..Len(flat) : flat[k] = k
        /\ Len(flat) <= n
        /\ Len(windows) <= CeilDiv(n, c)
        /\ \A w \in 1..Len(windows) :
              \/ Len(windows[w]) = c
              \/ /\ w = CeilDiv(n, c)
                 /\ n % c # 0
                 /\ Len(windows[w]) = n % c

\* C1 (as claimed): for every target list and every concurrency c >= 1 a run
\* of crawl_parallel partitions the targets, in input order, into ceil(n/c)
\* windows of c items, the last of n mod c items when that is not zero: the
\* windows dispatched are chunks of that partition, and when the run has
\* ended, normally or by raising, all ceil(n/c) windows were dispatched and
\* they hold all n targets.
C1_WindowsPartitionTargets ==
    /\ WindowsArePrefixOfPartition
    /\ CrawlEnded => /\ Len(windows) = CeilDiv(Len(urls), max_concurrent)
                     /\ Len(Flatten(windows)) = Len(urls)

\* C2 (as claimed): when crawl_parallel has finished, normally or by raising,
\* every target has exactly one outcome.
C2_EveryTargetHasOneOutcome ==
    CrawlEnded =>
        /\ Len(outcomes) = Len(urls)
        /\ \A k \in 1..Len(urls) :
              Cardinality({o \in 1..Len(outcomes) : outcomes[o].target = k}) = 1

\* C3 (as claimed): a per-item failure never aborts the batch: the run never
\* leaves the loop by an exception, and at its end every target was
\* dispatched and given an outcome.
C3_ItemFailureNeverAbortsBatch ==
    /\ cpc \notin {"raising", "raised"}
    /\ CrawlEnded => \A k \in 1..Len(urls) :
                        /\ status[k] = "returned"
                        /\ \E o \in 1..Len(outcomes) : outcomes[o].target = k

\* Window number (from 1) of target k.
WindowOf(k) == ((k - 1) \div max_concurrent) + 1

\* C4: an item of a later window is dispatched only when every item of every
\* earlier window has returned (completed or failed).
C4_WindowBarrier ==
    \A j, k \in 1..Len(urls) :
        (WindowOf(j) < WindowOf(k) /\ status[k] # "pending") => status[j] = "returned"

\* C4 witness: an item of the second window runs after the first window returned.
C4_Witness ==
    \E k \in 1..Len(urls) :
        /\ WindowOf(k) = 2
        /\ status[k] = "running"
        /\ max_concurrent >= 2
        /\ \A j \in 1..max_concurrent : status[j] = "returned"

\* C5: at most max_concurrent items are dispatched and not yet returned, and
\* the running items all belong to the window dispatched last.
C5_BoundedFanOut ==
    /\ Cardinality(Running) <= max_concurrent
    /\ Running # {} => /\ windows # <<>>
                       /\ Running \subseteq Range(windows[Len(windows)])

\* C5 witness: a full window of at least two items is running, after an earlier window.
C5_Witness ==
    /\ Cardinality(Running) = max_concurrent
    /\ max_concurrent >= 2
    /\ Len(windows) >= 2

\* Number of times crawler.arun was called for target k.
DispatchCount(k) ==
    LET flat == Flatten(windows)
    IN  Cardinality({n \in 1..Len(flat) : flat[n] = k})

\* No target is ever dispatched a second time, whatever its first result was.
NoTargetDispatchedTwice == \A k \in 1..Len(urls) : DispatchCount(k) <= 1

\* C21 (as claimed): in one run of crawl_parallel every target is dispatched
\* exactly once, also when its first dispatch failed: never more than once,
\* and once when the run has ended.
C21_EveryTargetDispatchedOnce ==
    /\ NoTargetDispatchedTwice
    /\ CrawlEnded => \A k \in 1..Len(urls) : DispatchCount(k) = 1

\* The windows whose results were processed: all that were dispatched,
\* without the one in flight.
CompletedWindows ==
    IF cpc = "gather" THEN SubSeq(windows, 1, Len(windows) - 1) ELSE windows

\* The records extracted from the results of the targets ks, in order.
RECURSIVE RecordsOf(_)
RecordsOf(ks) ==
    IF ks = <<>> THEN <<>> ELSE results[Head(ks)].profiles \o RecordsOf(Tail(ks))

\* C23: from the end of a window until the end of the next one (the delay,
\* the dispatch and the time the next window is in flight) the list last
\* handed to save_profiles_to_csv holds every record extracted in the
\* completed windows, so an interruption in that time finds them all saved.
C23_CompletedWindowsAreSaved ==
    cpc \in {"sleep", "loop", "gather", "done"} =>
        /\ csv = RecordsOf(Flatten(CompletedWindows))
        /\ csv = all_profiles

\* C23 witness: the third window is in flight and the records of the first
\* two windows, one each, are in the CSV file.
C23_Witness ==
    /\ cpc = "gather"
    /\ max_concurrent = 1
    /\ Len(windows) = 3
    /\ Running = {3}
    /\ Len(csv) = 2
    /\ oplog[Len(oplog) - 3] = "save"

\* Positions of the dispatches in the log.
Dispatches == {n \in 1..Len(oplog) : oplog[n] = "dispatch"}

\* C24: between the dispatches of two consecutive windows the memory is
\* sampled and, after that sample, the delay is waited.
C24_SampleAndDelayBetweenWindows ==
    \A a, b \in Dispatches :
        a < b => \E m, d \in (a + 1)..(b - 1) :
                    /\ m < d
                    /\ oplog[m] = "sample"
                    /\ oplog[d] = "sleep"

\* C24 witness: a second window was dispatched; the log between the two
\* dispatches is the sample after the first window, the save and the delay,
\* then the sample before the second.
C24_Witness ==
    /\ Len(windows) = 2
    /\ cpc = "gather"
    /\ oplog = <<"sample", "dispatch", "sample", "save", "sleep", "sample", "dispatch">>

\* C32: every target is dispatched with a session id of its own: the ids
\* given out so far, one per dispatched target, are pairwise different, within
\* a window and across windows.
C32_SessionIdsDistinct ==
    /\ Len(session_ids) = Len(Flatten(windows))
    /\ \A a, b \in 1..Len(session_ids) : a # b => session_ids[a] # session_ids[b]

\* C32 witness: a second window was dispatched after a first of two targets.
C32_Witness ==
    /\ Len(windows) = 2
    /\ Len(windows[1]) = 2
    /\ Len(session_ids) >= 3
    /\ cpc = "gather"

\* C26 (as claimed): no two records handed to save_profiles_to_csv have the
\* same profile URL, also when the same profile is in the results of several
\* targets or windows.
C26_SinkHasOneRowPerProfile ==
    \A a, b \in 1..Len(csv) : a # b => csv[a] # csv[b]

(***************************************************************************)
(* The profile loop of LinkedInScraper.scrape_profiles (linkedin_login.py). *)
(* An href is a sequence of tokens in which every '?' is a token of its    *)
(* own.                                                                    *)
(***************************************************************************)
HrefA      == <<"/in/a">>
HrefATrk1  == <<"/in/a", "?", "trk=1">>
HrefATrk2  == <<"/in/a", "?", "trk=2", "?", "x=1">>
HrefBTrk1  == <<"/in/b", "?", "trk=1">>
Hrefs == {HrefA, HrefATrk1, HrefATrk2, HrefBTrk1}

\* An element of the result list: without the profile anchor, with an anchor
\* whose href attribute reads as None, or with an anchor and its href.
Elements ==
    {[anchor |-> FALSE, hasHref |-> FALSE, href |-> <<>>],
     [anchor |-> TRUE, hasHref |-> FALSE, href |-> <<>>]}
    \cup {[anchor |-> TRUE, hasHref |-> TRUE, href |-> h] : h \in Hrefs}

\* Mutation: the query string is not stripped.
StripQueryNot(h) == h

\* profile_url.split('?')[0] when '?' is in profile_url, else profile_url.
StripQuery(h) ==
    IF \E k \in 1..Len(h) : h[k] = "?"
    THEN LET first == CHOOSE k \in 1..Len(h) : h[k] = "?" /\ \A j \in 1..(k - 1) : h[j] # "?"
         IN  SubSeq(h, 1, first - 1)
    ELSE h

\* profile_elements[:max_profiles]
SliceLen == Min(max_profiles, Len(profile_elements))

DedupInit ==
    /\ CrawlIdle
    /\ SessionIdle
    /\ AuxIdle
    /\ profile_elements \in SeqsUpTo(Elements, MaxElements)
    /\ max_profiles \in 0..MaxProfiles
    /\ pos = 0
    /\ processed_urls = {}
    /\ profiles_processed = 0
    /\ printed = <<>>
    /\ seen = <<>>
    /\ no_href_warnings = 0
    /\ dpc = "loop"

\* One iteration of `for profile_elem in profile_elements[:max_profiles]`.
\* exc says where the page operations of this iteration raise: nowhere, in
\* query_selector, or in an evaluate after the URL was recorded. Every
\* exception is caught by the except clause of the body, which continues.
\* An element without the anchor is passed over silently, an anchor without
\* href with a warning in the log; the loop keeps no count of either.
HandleElement(exc) ==
    /\ dpc = "loop"
    /\ pos < SliceLen
    /\ LET e == profile_elements[pos + 1]
           key == StripQuery(e.href)
       IN  IF exc = "query_selector" \/ ~e.anchor
           THEN UNCHANGED <<processed_urls, profiles_processed, printed, seen,
                            no_href_warnings>>
           ELSE IF ~e.hasHref \/ e.href = <<>>
           THEN /\ no_href_warnings' = no_href_warnings + 1
                /\ UNCHANGED <<processed_urls, profiles_processed, printed, seen>>
           ELSE IF key \in processed_urls
           THEN /\ seen' = Append(seen, [href |-> e.href, new |-> FALSE, elem |-> pos + 1])
                /\ UNCHANGED <<processed_urls, profiles_processed, printed,
                               no_href_warnings>>
           ELSE /\ seen' = Append(seen, [href |-> e.href, new |-> TRUE, elem |-> pos + 1])
                /\ processed_urls' = processed_urls \cup {key}
                /\ UNCHANGED no_href_warnings
                /\ IF exc = "evaluate"
                   THEN UNCHANGED <<profiles_processed, printed>>
                   ELSE /\ printed' = Append(printed, [n |-> profiles_processed + 1,
                                                       url |-> key, elem |-> pos + 1])
                        /\ profiles_processed' = profiles_processed + 1
    /\ pos' = pos + 1
    /\ UNCHANGED <<profile_elements, max_profiles, dpc>>
    /\ UNCHANGED <<crawlVars, sessionVars, auxVars>>

\* The slice is exhausted.
ProfileLoopExit ==
    /\ dpc = "loop"
    /\ pos >= SliceLen
    /\ dpc' = "done"
    /\ UNCHANGED <<profile_elements, max_profiles, pos, processed_urls, profiles_processed,
                   printed, seen, no_href_warnings>>
    /\ UNCHANGED <<crawlVars, sessionVars, auxVars>>

DedupNext ==
    \/ \E exc \in {"none", "query_selector", "evaluate"} : HandleElement(exc)
    \/ ProfileLoopExit

SpecDedup == DedupInit /\ [][DedupNext]_vars

(***************************************************************************)
(* Claims about the duplicate test, checked under SpecDedup.               *)
(***************************************************************************)
\* k is the normalized key of href h: h without its first '?' and what follows.
IsKeyOf(k, h) ==
    /\ \A j \in 1..Len(k) : k[j] # "?"
    /\ Len(k) <= Len(h)
    /\ SubSeq(h, 1, Len(k)) = k
    /\ Len(h) > Len(k) => h[Len(k) + 1] = "?"

SameKey(h1, h2) == \E n \in 0..Len(h1) : IsKeyOf(SubSeq(h1, 1, n), h1) /\ IsKeyOf(SubSeq(h1, 1, n), h2)

\* C6: the duplicate test answers "new" for an href exactly when no earlier
\* href of the run had the same query-stripped form; so it answers "new" once
\* per key, a profile is printed only for the first href of its key, and no
\* two printed profiles have the same key.
C6_NewExactlyOncePerKey ==
    /\ \A n \in 1..Len(seen) :
          seen[n].new <=> ~(\E m \in 1..(n - 1) : SameKey(seen[m].href, seen[n].href))
    /\ \A a \in 1..Len(printed) :
          /\ IsKeyOf(printed[a].url, profile_elements[printed[a].elem].href)
          /\ \E n \in 1..Len(seen) : seen[n].elem = printed[a].elem /\ seen[n].new
          /\ \A b \in 1..Len(printed) : a # b => printed[a].url # printed[b].url

\* C6 witness: a second href with the same key and another query string was skipped.
C6_Witness ==
    \E m, n \in 1..Len(seen) :
        /\ m < n
        /\ seen[m].new
        /\ ~seen[n].new
        /\ seen[m].href # seen[n].href
        /\ SameKey(seen[m].href, seen[n].href)
        /\ \E a \in 1..Len(printed) : printed[a].elem = seen[m].elem

\* The "Skipping duplicate profile" lines logged so far.
DuplicatesSkipped == Cardinality({n \in 1..Len(seen) : ~seen[n].new})

\* C19 (as claimed): when the loop has ended, every element it examined is
\* accounted for: profiles emitted + duplicates skipped + elements skipped
\* for want of a key (the only trace of which is the logged warning) =
\* elements examined.
C19_SkippedElementsAreCounted ==
    dpc = "done" =>
        profiles_processed + DuplicatesSkipped + no_href_warnings = SliceLen

\* The normalized profile URLs the elements of the page hold.
DistinctUrls ==
    {StripQuery(profile_elements[k].href) :
        k \in {j \in 1..Len(profile_elements) :
                  /\ profile_elements[j].anchor
                  /\ profile_elements[j].hasHref
                  /\ profile_elements[j].href # <<>>}}

\* The counter never passes the argument max_profiles.
NeverMoreThanMaxProfiles == profiles_processed <= max_profiles

\* No page operation of the loop raised: every element with a link reached
\* the duplicate test, and every new URL was printed.
NoOperationRaised ==
    /\ \A k \in 1..pos :
          (profile_elements[k].anchor /\ profile_elements[k].hasHref
              /\ profile_elements[k].href # <<>>)
          => \E n \in 1..Len(seen) : seen[n].elem = k
    /\ \A n \in 1..Len(seen) :
          seen[n].new => \E a \in 1..Len(printed) : printed[a].elem = seen[n].elem

\* C35 (as claimed): profiles_processed never exceeds max_profiles, and when
\* the page holds at least max_profiles elements with distinct normalized
\* profile URLs and no page operation raised, the loop ends with exactly
\* max_profiles profiles processed: an element skipped as a duplicate or for
\* want of a link does not use up the quota.
C35_QuotaIsFilled ==
    /\ NeverMoreThanMaxProfiles
    /\ (/\ dpc = "done"
        /\ Cardinality(DistinctUrls) >= max_profiles
        /\ NoOperationRaised)
       => profiles_processed = max_profiles

(***************************************************************************)
(* The cookie file and the login flow of LinkedInJobScraper.scrape_jobs    *)
(* (linkedin_jobs.py), over successive runs of the script: the cookie file *)
(* is what one run leaves to the next.                                     *)
(***************************************************************************)
\* A cookie as context.cookies() returns it.
CookieLiAt1   == [name |-> "li_at", value |-> "AQED1", expires |-> 1700, secure |-> TRUE]
CookieLiAt2   == [name |-> "li_at", value |-> "AQED2", expires |-> 1800, secure |-> TRUE]
CookieSession == [name |-> "JSESSIONID", value |-> "ajax:1", expires |-> -1, secure |-> FALSE]
CookieJars == {<<>>, <<CookieLiAt1>>, <<CookieLiAt2, CookieSession>>}

\* JSON text as a sequence of tokens: punctuation, strings, numbers, booleans.
Tok(t)     == [t |-> t, s |-> "", n |-> 0, b |-> FALSE]
StrTok(x)  == [t |-> "str", s |-> x, n |-> 0, b |-> FALSE]
NumTok(k)  == [t |-> "num", s |-> "", n |-> k, b |-> FALSE]
BoolTok(v) == [t |-> "bool", s |-> "", n |-> 0, b |-> v]

\* Mutation: the encoder writes every secure flag as false.
EncodeCookieNoFlag(c) ==
    <<Tok("{"), StrTok(c.name), StrTok(c.value), NumTok(c.expires), BoolTok(FALSE), Tok("}")>>

\* json.dump of one cookie object.
EncodeCookie(c) ==
    <<Tok("{"), StrTok(c.name), StrTok(c.value), NumTok(c.expires), BoolTok(c.secure), Tok("}")>>

CookieTokens == 6

RECURSIVE EncodeAll(_)
EncodeAll(cs) == IF cs = <<>> THEN <<>> ELSE EncodeCookie(Head(cs)) \o EncodeAll(Tail(cs))

\* json.dump(cookies, f): the whole text written.
JsonDump(cs) == <<Tok("[")>> \o EncodeAll(cs) \o <<Tok("]")>>

\* json.load(f) succeeds only on a complete array of complete cookie objects.
JsonOk(d) ==
    /\ Len(d) >= 2
    /\ d[1] = Tok("[")
    /\ d[Len(d)] = Tok("]")
    /\ (Len(d) - 2) % CookieTokens = 0
    /\ \A k \in 0..(((Len(d) - 2) \div CookieTokens) - 1) :
          LET o == 1 + CookieTokens * k
          IN  /\ d[o + 1] = Tok("{")
              /\ d[o + 2].t = "str"
              /\ d[o + 3].t = "str"
              /\ d[o + 4].t = "num"
              /\ d[o + 5].t = "bool"
              /\ d[o + 6] = Tok("}")

\* The value json.load returns for a text that parses.
JsonLoad(d) ==
    [k \in 1..((Len(d) - 2) \div CookieTokens) |->
        LET o == 1 + CookieTokens * (k - 1)
        IN  [name |-> d[o + 2].s, value |-> d[o + 3].s,
             expires |-> d[o + 4].n, secure |-> d[o + 5].b]]

\* A URL is a sequence of tokens: every '/' of its path is a token of its
\* own, and the words feed and mynetwork are tokens wherever they occur, so
\* that a substring test for one of these words is a test for the token.
LinkedInHost == "https://www.linkedin.com"
FeedUrl == <<LinkedInHost, "/", "feed", "/">>
FeedQueryUrl == <<LinkedInHost, "/", "feed", "/", "?trk=homepage">>
FeedbackUrl == <<LinkedInHost, "/", "feed", "back">>
MyNetworkUrl == <<LinkedInHost, "/", "mynetwork", "/">>
MyNetworkGrowUrl == <<LinkedInHost, "/", "mynetwork", "/", "grow", "/">>
LoginUrl == <<LinkedInHost, "/", "login">>
\* The login page a visitor without a session is sent to from /feed/.
LoginRedirectUrl ==
    <<LinkedInHost, "/", "uas", "/", "login?session_redirect=https%3A%2F%2Fwww.linkedin.com%2F",
      "feed", "%2F">>
CheckpointUrl == <<LinkedInHost, "/", "checkpoint", "/", "challenge">>

\* The pages a run navigates to once it is past its login: the jobs URL of
\* scrape_jobs, the people search of the two other entry points, a profile.
TargetUrl == <<LinkedInHost, "/", "jobs", "/", "search", "/">>
SearchUrl == <<LinkedInHost, "/", "search", "/", "results", "/", "people", "/", "?keywords=Sac">>
ProfilePageUrl == <<LinkedInHost, "/", "in", "/", "a">>
AfterBranchUrls == {TargetUrl, SearchUrl, ProfilePageUrl}

\* The URLs the site can leave the page on.
SiteUrls == {FeedUrl, FeedQueryUrl, FeedbackUrl, MyNetworkUrl, MyNetworkGrowUrl,
             LoginUrl, LoginRedirectUrl, CheckpointUrl}

\* 'feed' in page.url: the word occurs anywhere in the URL.
InUrl(word, url) == \E k \in 1..Len(url) : url[k] = word

\* 'feed' in page.url or 'mynetwork' in page.url
OnLandingSurface(url) == InUrl("feed", url) \/ InUrl("mynetwork", url)

\* The test of check_login_status (its return value).
CheckLanded(url) == OnLandingSurface(url)

\* The test of perform_login after the form was submitted.
LoginLanded(url) == OnLandingSurface(url)

\* Mutation: the branch of scrape_jobs looks for 'feed' only.
ScrapeBranchFeedOnly(url) == InUrl("feed", url)

\* The test of scrape_jobs that decides between scraping and "Login failed".
ScrapeBranchTaken(url) == OnLandingSurface(url)

SessionInit ==
    /\ CrawlIdle
    /\ DedupIdle
    /\ AuxIdle
    /\ \/ file = NoFile /\ fileOrigin = NoOrigin
       \/ \E c \in CookieJars :
             /\ file = [exists |-> TRUE, data |-> JsonDump(c)]
             /\ fileOrigin = [complete |-> TRUE, cookies |-> c, run |-> 0]
    /\ run = 1
    /\ spc = "start"
    /\ RunFresh

\* Launch the browser, open a fresh context and page.
RunStart ==
    /\ spc = "start"
    /\ spc' = "load"
    /\ UNCHANGED <<file, fileOrigin, run, ctx, pageUrl, cookies_loaded, checkResult,
                   loginResult, injected, add_raised, saving, saveCalls, loginAttempts, authTrace,
                   scraped>>
    /\ UNCHANGED <<crawlVars, dedupVars, auxVars>>

\* Mutation: an absent cookie file is read as an empty list of cookies and
\* load_cookies returns True.
LoadCookiesAbsentAsEmpty(add_raises) ==
    /\ spc = "load"
    /\ add_raises => (file.exists /\ JsonOk(file.data))
    /\ add_raised' = add_raises
    /\ IF (~file.exists \/ JsonOk(file.data)) /\ ~add_raises
       THEN /\ injected' = JsonLoad(file.data)
            /\ ctx' = JsonLoad(file.data)
            /\ cookies_loaded' = "true"
            /\ authTrace' = <<"CheckingSession">>
            /\ spc' = "check"
       ELSE /\ cookies_loaded' = "false"
            /\ authTrace' = <<"CheckingSession", "NeedsLogin">>
            /\ spc' = "login"
            /\ UNCHANGED <<injected, ctx>>
    /\ UNCHANGED <<file, fileOrigin, run, pageUrl, checkResult, loginResult, saving,
                   saveCalls, loginAttempts, scraped>>
    /\ UNCHANGED <<crawlVars, dedupVars, auxVars>>

\* cookies_loaded = await self.load_cookies(context): json.load and
\* context.add_cookies are in one try block; add_raises says that
\* add_cookies, reached with the cookies of a file that parsed, raised.
LoadCookies(add_raises) ==
    /\ spc = "load"
    /\ add_raises => (file.exists /\ JsonOk(file.data))
    /\ add_raised' = add_raises
    /\ IF file.exists /\ JsonOk(file.data) /\ ~add_raises
       THEN /\ injected' = JsonLoad(file.data)
            /\ ctx' = JsonLoad(file.data)
            /\ cookies_loaded' = "true"
            /\ authTrace' = <<"CheckingSession">>
            /\ spc' = "check"
       ELSE \* no file, or json.load or add_cookies raised and the exception
            \* was swallowed: nothing is injected
            /\ cookies_loaded' = "false"
            /\ authTrace' = <<"CheckingSession", "NeedsLogin">>
            /\ spc' = "login"
            /\ UNCHANGED <<injected, ctx>>
    /\ UNCHANGED <<file, fileOrigin, run, pageUrl, checkResult, loginResult, saving,
                   saveCalls, loginAttempts, scraped>>
    /\ UNCHANGED <<crawlVars, dedupVars, auxVars>>

\* Mutation: a cookie file that did not give a session is removed.
CheckLoginStatusDeletesStale(raises, url) ==
    /\ spc = "check"
    /\ ~raises => url \in SiteUrls
    /\ pageUrl' = url
    /\ IF ~raises /\ CheckLanded(url)
       THEN /\ checkResult' = "true"
            /\ spc' = "branch"
            /\ UNCHANGED <<authTrace, file, fileOrigin>>
       ELSE /\ checkResult' = "false"
            /\ spc' = "login"
            /\ authTrace' = Append(authTrace, "NeedsLogin")
            /\ file' = NoFile
            /\ fileOrigin' = NoOrigin
    /\ UNCHANGED <<run, ctx, cookies_loaded, loginResult, injected, add_raised,
                   saving, saveCalls, loginAttempts, scraped>>
    /\ UNCHANGED <<crawlVars, dedupVars, auxVars>>

\* await self.check_login_status(page): page.goto either returns with the page
\* on url, or raises with the page where it was or on url.
CheckLoginStatus(raises, url) ==
    /\ spc = "check"
    /\ ~raises => url \in SiteUrls
    /\ pageUrl' = url
    /\ IF ~raises /\ CheckLanded(url)
       THEN /\ checkResult' = "true"
            /\ spc' = "branch"
            /\ UNCHANGED authTrace
       ELSE /\ checkResult' = "false"
            /\ spc' = "login"
            /\ authTrace' = Append(authTrace, "NeedsLogin")
    /\ UNCHANGED <<file, fileOrigin, run, ctx, cookies_loaded, loginResult, injected, add_raised,
                   saving, saveCalls, loginAttempts, scraped>>
    /\ UNCHANGED <<crawlVars, dedupVars, auxVars>>

\* Mutation: perform_login saves the cookies wherever the page ended.
LoginSubmitAlwaysSaves(raises, url, jar) ==
    /\ spc = "login"
    /\ ~raises => url \in SiteUrls
    /\ loginAttempts' = loginAttempts + 1
    /\ authTrace' = Append(authTrace, "LoggingIn")
    /\ pageUrl' = url
    /\ IF ~raises
       THEN /\ ctx' = jar
            /\ spc' = "save"
            /\ UNCHANGED loginResult
       ELSE /\ loginResult' = "false"
            /\ spc' = "branch"
            /\ UNCHANGED ctx
    /\ UNCHANGED <<file, fileOrigin, run, cookies_loaded, checkResult, injected, add_raised, saving,
                   saveCalls, scraped>>
    /\ UNCHANGED <<crawlVars, dedupVars, auxVars>>

\* perform_login up to its test of page.url: go to the login page, wait for
\* the form, fill and submit it, wait. A page operation may raise, which
\* perform_login answers with False.
LoginSubmit(raises, url, jar) ==
    /\ spc = "login"
    /\ ~raises => url \in SiteUrls
    /\ loginAttempts' = loginAttempts + 1
    /\ authTrace' = Append(authTrace, "LoggingIn")
    /\ pageUrl' = url
    /\ IF ~raises /\ LoginLanded(url)
       THEN /\ ctx' = jar
            /\ spc' = "save"
            /\ UNCHANGED loginResult
       ELSE /\ loginResult' = "false"
            /\ spc' = "branch"
            /\ UNCHANGED ctx
    /\ UNCHANGED <<file, fileOrigin, run, cookies_loaded, checkResult, injected, add_raised, saving,
                   saveCalls, scraped>>
    /\ UNCHANGED <<crawlVars, dedupVars, auxVars>>

\* save_cookies is entered: cookies = await context.cookies(). If that raises,
\* save_cookies logs it and returns, and perform_login returns True.
SaveGetCookies(raises) ==
    /\ spc = "save"
    /\ saveCalls' = saveCalls + 1
    /\ IF raises
       THEN /\ loginResult' = "true"
            /\ spc' = "branch"
            /\ UNCHANGED saving
       ELSE /\ saving' = ctx
            /\ spc' = "open"
            /\ UNCHANGED loginResult
    /\ UNCHANGED <<file, fileOrigin, run, ctx, pageUrl, cookies_loaded, checkResult,
                   injected, add_raised, loginAttempts, authTrace, scraped>>
    /\ UNCHANGED <<crawlVars, dedupVars, auxVars>>

\* open(self.cookies_file, 'w') truncates the file in place.
SaveOpen ==
    /\ spc = "open"
    /\ file' = [exists |-> TRUE, data |-> <<>>]
    /\ fileOrigin' = NoOrigin
    /\ spc' = "write"
    /\ UNCHANGED <<run, ctx, pageUrl, cookies_loaded, checkResult, loginResult, injected, add_raised,
                   saving, saveCalls, loginAttempts, authTrace, scraped>>
    /\ UNCHANGED <<crawlVars, dedupVars, auxVars>>

\* json.dump writes the text piece by piece.
SaveWrite ==
    /\ spc = "write"
    /\ Len(file.data) < Len(JsonDump(saving))
    /\ file' = [file EXCEPT !.data = Append(@, JsonDump(saving)[Len(@) + 1])]
    /\ UNCHANGED <<fileOrigin, run, spc, ctx, pageUrl, cookies_loaded, checkResult,
                   loginResult, injected, add_raised, saving, saveCalls, loginAttempts, authTrace,
                   scraped>>
    /\ UNCHANGED <<crawlVars, dedupVars, auxVars>>

\* The with block ends: the file is closed, save_cookies and perform_login return.
SaveClose ==
    /\ spc = "write"
    /\ Len(file.data) = Len(JsonDump(saving))
    /\ fileOrigin' = [complete |-> TRUE, cookies |-> saving, run |-> run]
    /\ loginResult' = "true"
    /\ spc' = "branch"
    /\ UNCHANGED <<file, run, ctx, pageUrl, cookies_loaded, checkResult, injected, add_raised, saving,
                   saveCalls, loginAttempts, authTrace, scraped>>
    /\ UNCHANGED <<crawlVars, dedupVars, auxVars>>

\* open or a write raises an OSError: save_cookies logs it and returns, the
\* file stays as it is at that point, and perform_login returns True.
SaveIOError ==
    /\ spc \in {"open", "write"}
    /\ loginResult' = "true"
    /\ spc' = "branch"
    /\ UNCHANGED <<file, fileOrigin, run, ctx, pageUrl, cookies_loaded, checkResult,
                   injected, add_raised, saving, saveCalls, loginAttempts, authTrace, scraped>>
    /\ UNCHANGED <<crawlVars, dedupVars, auxVars>>

\* The process is killed while it is in save_cookies.
Crash ==
    /\ spc \in {"save", "open", "write"}
    /\ spc' = "dead"
    /\ UNCHANGED <<file, fileOrigin, run, ctx, pageUrl, cookies_loaded, checkResult,
                   loginResult, injected, add_raised, saving, saveCalls, loginAttempts, authTrace,
                   scraped>>
    /\ UNCHANGED <<crawlVars, dedupVars, auxVars>>

\* `if 'feed' in page.url or 'mynetwork' in page.url:` scrape, else log
\* "Login failed"; then the finally block closes the browser. The scraping
\* branch starts with page.goto(job_url), which leaves the page on the jobs
\* URL, or where it was when it raises before it has navigated.
Branch(url) ==
    /\ spc = "branch"
    /\ IF ScrapeBranchTaken(pageUrl)
       THEN /\ url \in {pageUrl, TargetUrl}
            /\ authTrace' = Append(authTrace, "Authenticated")
            /\ scraped' = TRUE
       ELSE /\ url = pageUrl
            /\ authTrace' = Append(authTrace, "LoginFailed")
            /\ scraped' = FALSE
    /\ pageUrl' = url
    /\ spc' = "end"
    /\ UNCHANGED <<file, fileOrigin, run, ctx, cookies_loaded, checkResult,
                   loginResult, injected, add_raised, saving, saveCalls, loginAttempts>>
    /\ UNCHANGED <<crawlVars, dedupVars, auxVars>>

\* The script is started again: a new process, a fresh browser context.
NextRun ==
    /\ spc \in {"end", "dead"}
    /\ run < MaxRuns
    /\ run' = run + 1
    /\ spc' = "start"
    /\ ctx' = <<>>
    /\ pageUrl' = BlankUrl
    /\ cookies_loaded' = "unset"
    /\ checkResult' = "unset"
    /\ loginResult' = "unset"
    /\ injected' = <<>>
    /\ add_raised' = FALSE
    /\ saving' = <<>>
    /\ saveCalls' = 0
    /\ loginAttempts' = 0
    /\ authTrace' = <<>>
    /\ scraped' = FALSE
    /\ UNCHANGED <<file, fileOrigin>>
    /\ UNCHANGED <<crawlVars, dedupVars, auxVars>>

SessionNext ==
    \/ RunStart
    \/ \E add_raises \in BOOLEAN : LoadCookies(add_raises)
    \/ \E raises \in BOOLEAN : \E url \in SiteUrls \cup {pageUrl} :
          CheckLoginStatus(raises, url)
    \/ \E raises \in BOOLEAN : \E url \in SiteUrls \cup {pageUrl} : \E jar \in CookieJars :
          LoginSubmit(raises, url, jar)
    \/ \E raises \in BOOLEAN : SaveGetCookies(raises)
    \/ SaveOpen
    \/ SaveWrite
    \/ SaveClose
    \/ SaveIOError
    \/ Crash
    \/ \E url \in AfterBranchUrls \cup {pageUrl} : Branch(url)
    \/ NextRun

SpecSession == SessionInit /\ [][SessionNext]_vars

(***************************************************************************)
(* Claims about the cookie store and the login flow, under SpecSession.    *)
(***************************************************************************)
\* C7: when load_cookies reads a file that a completed save_cookies wrote,
\* with no write since, and the browser context takes the cookies, it returns
\* True and the cookies it injects are the cookies that save wrote; when
\* context.add_cookies raises, it returns False and injects nothing.
C7_SaveLoadRoundTrip ==
    (cookies_loaded # "unset" /\ spc \in {"check", "login"} /\ fileOrigin.complete) =>
        IF add_raised
        THEN /\ cookies_loaded = "false"
             /\ injected = <<>>
             /\ ctx = <<>>
        ELSE /\ cookies_loaded = "true"
             /\ injected = fileOrigin.cookies
             /\ ctx = fileOrigin.cookies

\* C7 witness: the second run injected the two cookies the first run saved.
C7_Witness ==
    /\ run = 2
    /\ spc = "check"
    /\ fileOrigin.complete
    /\ fileOrigin.run = 1
    /\ injected = <<CookieLiAt2, CookieSession>>

\* C8 (as claimed): when the process dies in save_cookies, the cookie file it
\* leaves to the next run, if there is one, is the complete old or the
\* complete new credential, never an empty or partly written text.
C8_CrashLeavesCompleteFile ==
    (spc = "dead" /\ file.exists) => (JsonOk(file.data) /\ fileOrigin.complete)

\* The run had a stored credential that the landing check refused.
StaleRun == cookies_loaded = "true" /\ checkResult = "false"

\* C9: a run with a stale stored credential goes CheckingSession, NeedsLogin,
\* LoggingIn, calls save_cookies at most once, and when perform_login returns
\* True it has called save_cookies exactly once and the run ends Authenticated.
C9_StaleCredentialFlow ==
    StaleRun =>
        /\ Len(authTrace) >= 2
        /\ SubSeq(authTrace, 1, 2) = <<"CheckingSession", "NeedsLogin">>
        /\ spc # "login" => /\ Len(authTrace) >= 3
                            /\ authTrace[3] = "LoggingIn"
                            /\ loginAttempts = 1
        /\ saveCalls <= 1
        /\ loginResult = "true" => saveCalls = 1
        /\ (spc = "end" /\ loginResult = "true") =>
              authTrace = <<"CheckingSession", "NeedsLogin", "LoggingIn", "Authenticated">>

\* C9 witness: a stale run whose login succeeded has ended.
C9_Witness ==
    /\ StaleRun
    /\ spc = "end"
    /\ loginResult = "true"
    /\ saveCalls = 1
    /\ pageUrl = TargetUrl
    /\ authTrace[Len(authTrace)] = "Authenticated"

\* C10 (as claimed): perform_login is called at most once per run, and a run
\* whose perform_login returned False ends in LoginFailed.
C10_LoginOnceAndFailureTerminal ==
    /\ loginAttempts <= 1
    /\ (spc = "end" /\ loginResult = "false") =>
          /\ authTrace[Len(authTrace)] = "LoginFailed"
          /\ ~scraped

\* C13: load_cookies answers an absent cookie file with False: it does not
\* raise, it injects no cookie, the landing check is not made, and the run
\* goes on to perform_login.
C13_AbsentFileIsNoCredential ==
    /\ (spc = "login" /\ ~file.exists) =>
          /\ cookies_loaded = "false"
          /\ injected = <<>>
          /\ ctx = <<>>
          /\ checkResult = "unset"
          /\ authTrace = <<"CheckingSession", "NeedsLogin">>
    /\ (cookies_loaded = "false" /\ spc # "login") =>
          /\ injected = <<>>
          /\ loginAttempts = 1

\* C13 witness: a first run that found no cookie file has logged in and ended.
C13_Witness ==
    /\ run = 1
    /\ spc = "end"
    /\ cookies_loaded = "false"
    /\ injected = <<>>
    /\ loginAttempts = 1

\* C28: a cookie file that did not give a session is kept as it is: the step
\* in which the session check fails and the step in which the login fails
\* leave the file unchanged, and the file changes only inside save_cookies,
\* which runs after a login that landed on the feed.
C28_StaleCredentialIsKept ==
    [][/\ (checkResult = "unset" /\ checkResult' = "false") => file' = file
       /\ (loginResult = "unset" /\ loginResult' = "false") => file' = file
       /\ file' # file => /\ spc \in {"open", "write"}
                          /\ LoginLanded(pageUrl)
                          /\ loginAttempts = 1
                          /\ authTrace[Len(authTrace)] = "LoggingIn"]_vars

\* C28 witness: the stored cookies did not give a session and the login
\* failed too; the run has ended and the file is the complete dump it found.
C28_Witness ==
    /\ run = 1
    /\ spc = "end"
    /\ checkResult = "false"
    /\ loginResult = "false"
    /\ file.exists
    /\ file.data # <<>>
    /\ fileOrigin.complete
    /\ fileOrigin.run = 0

\* C33: the cookie file is written only in a run whose interactive login
\* succeeded. A step changes the file only inside save_cookies, in a run
\* whose stored session was not accepted and whose one perform_login found
\* the page on the landing surface after the form was submitted. A run whose
\* session check returned True, and a run whose login did not land or whose
\* page operation raised, goes to the branch without a call of save_cookies,
\* and from the branch on the run leaves the file as it is.
C33_FileWrittenOnlyAfterLogin ==
    [][/\ file' # file => /\ spc \in {"open", "write"}
                          /\ checkResult # "true"
                          /\ loginResult = "unset"
                          /\ loginAttempts = 1
                          /\ saveCalls = 1
                          /\ LoginLanded(pageUrl)
       /\ (spc = "check" /\ checkResult' = "true") =>
              (saveCalls' = 0 /\ spc' = "branch" /\ file' = file)
       /\ (spc = "login" /\ loginResult' = "false") =>
              (saveCalls' = 0 /\ spc' = "branch" /\ file' = file)
       /\ spc \in {"branch", "end"} => file' = file]_vars

\* C33 witness: the first run logged in and wrote the file; the second run
\* found the stored session valid and ended without a call of save_cookies,
\* the file still being the one the first run wrote.
C33_Witness ==
    /\ run = 2
    /\ spc = "end"
    /\ checkResult = "true"
    /\ loginAttempts = 0
    /\ saveCalls = 0
    /\ fileOrigin.complete
    /\ fileOrigin.run = 1

\* What the last authentication step of the run returned: perform_login when
\* it was called, otherwise check_login_status.
LastAuthResult == IF loginResult # "unset" THEN loginResult ELSE checkResult

\* C34 (as claimed): a run enters the scraping branch only if its last
\* authentication step returned True, and a run whose perform_login returned
\* False, also by its except clause, takes the "Login failed" branch.
C34_BranchFollowsLastAuthStep ==
    spc = "end" =>
        /\ scraped => LastAuthResult = "true"
        /\ loginResult = "false" => ~scraped

(***************************************************************************)
(* The login of two further entry points, over the same cookie file and    *)
(* browser state: LinkedInProfileScraper.scrape_profiles with its          *)
(* perform_login (linkedin_profile_scraper.py) and debug_scrape with       *)
(* perform_manual_login (debug_scraper.py). Both test 'feed' in page.url.  *)
(***************************************************************************)
EntryPoints == {"linkedin_profile_scraper", "debug_scraper"}

\* 'feed' in page.url
OnFeed(url) == InUrl("feed", url)

\* The cookie files an earlier run can have left: none, a complete dump, or
\* the empty file of a save that was cut short after open(.., 'w').
EntriesInit ==
    /\ CrawlIdle
    /\ DedupIdle
    /\ ScrollIdle
    /\ ExtractIdle
    /\ RetryIdle
    /\ MoreIdle
    /\ entry \in EntryPoints
    /\ \/ file = NoFile /\ fileOrigin = NoOrigin
       \/ file = [exists |-> TRUE, data |-> <<>>] /\ fileOrigin = NoOrigin
       \/ \E c \in CookieJars :
             /\ file = [exists |-> TRUE, data |-> JsonDump(c)]
             /\ fileOrigin = [complete |-> TRUE, cookies |-> c, run |-> 0]
    /\ run = 1
    /\ spc = "start"
    /\ RunFresh

\* perform_login of LinkedInProfileScraper, its cookie part: with a cookie
\* file, load it, inject the cookies, go to the feed and return True when the
\* page is on it; any exception (of json.load, of add_cookies, of the page)
\* is logged and the manual login follows.
ProfileCookieLogin(add_raises, raises, url) ==
    /\ entry = "linkedin_profile_scraper"
    /\ spc = "start"
    /\ add_raises => (file.exists /\ JsonOk(file.data))
    /\ add_raised' = add_raises
    /\ IF ~file.exists
       THEN /\ raises /\ url = pageUrl
            /\ authTrace' = <<"NeedsLogin">>
            /\ spc' = "login"
            /\ UNCHANGED <<injected, ctx, pageUrl, cookies_loaded, checkResult, loginResult>>
       ELSE IF ~JsonOk(file.data) \/ add_raises
       THEN /\ raises /\ url = pageUrl
            /\ cookies_loaded' = "false"
            /\ authTrace' = <<"CheckingSession", "NeedsLogin">>
            /\ spc' = "login"
            /\ UNCHANGED <<injected, ctx, pageUrl, checkResult, loginResult>>
       ELSE /\ ~raises => url \in SiteUrls
            /\ cookies_loaded' = "true"
            /\ injected' = JsonLoad(file.data)
            /\ ctx' = JsonLoad(file.data)
            /\ pageUrl' = url
            /\ IF ~raises /\ OnFeed(url)
               THEN /\ checkResult' = "true"
                    /\ loginResult' = "true"
                    /\ authTrace' = <<"CheckingSession">>
                    /\ spc' = "branch"
               ELSE /\ checkResult' = "false"
                    /\ authTrace' = <<"CheckingSession", "NeedsLogin">>
                    /\ spc' = "login"
                    /\ UNCHANGED loginResult
    /\ UNCHANGED <<file, fileOrigin, run, saving, saveCalls, loginAttempts, scraped>>
    /\ UNCHANGED <<crawlVars, dedupVars, auxVars>>

\* perform_login of LinkedInProfileScraper, the manual part up to its test of
\* page.url: not on the feed, or an exception, makes it return False.
ProfileManualLogin(raises, url, jar) ==
    /\ entry = "linkedin_profile_scraper"
    /\ spc = "login"
    /\ ~raises => url \in SiteUrls
    /\ loginAttempts' = loginAttempts + 1
    /\ authTrace' = Append(authTrace, "LoggingIn")
    /\ pageUrl' = url
    /\ IF ~raises /\ OnFeed(url)
       THEN /\ ctx' = jar
            /\ spc' = "save"
            /\ UNCHANGED loginResult
       ELSE /\ loginResult' = "false"
            /\ spc' = "branch"
            /\ UNCHANGED ctx
    /\ UNCHANGED <<file, fileOrigin, run, cookies_loaded, checkResult, injected, add_raised, saving,
                   saveCalls, scraped>>
    /\ UNCHANGED <<crawlVars, dedupVars, auxVars>>

\* cookies = await page.context.cookies(); os.makedirs(..): inside the try of
\* perform_login, so an exception here makes perform_login return False.
ProfileSaveGetCookies(raises) ==
    /\ entry = "linkedin_profile_scraper"
    /\ spc = "save"
    /\ saveCalls' = saveCalls + 1
    /\ IF raises
       THEN /\ loginResult' = "false"
            /\ spc' = "branch"
            /\ UNCHANGED saving
       ELSE /\ saving' = ctx
            /\ spc' = "open"
            /\ UNCHANGED loginResult
    /\ UNCHANGED <<file, fileOrigin, run, ctx, pageUrl, cookies_loaded, checkResult,
                   injected, add_raised, loginAttempts, authTrace, scraped>>
    /\ UNCHANGED <<crawlVars, dedupVars, auxVars>>

\* The with block ends, "Saved .. cookies" is logged, perform_login returns True.
ProfileSaveClose ==
    /\ entry = "linkedin_profile_scraper"
    /\ spc = "write"
    /\ Len(file.data) = Len(JsonDump(saving))
    /\ fileOrigin' = [complete |-> TRUE, cookies |-> saving, run |-> run]
    /\ loginResult' = "true"
    /\ spc' = "branch"
    /\ UNCHANGED <<file, run, ctx, pageUrl, cookies_loaded, checkResult, injected, add_raised, saving,
                   saveCalls, loginAttempts, authTrace, scraped>>
    /\ UNCHANGED <<crawlVars, dedupVars, auxVars>>

\* open or a write raises an OSError: the except clause of perform_login logs
\* "Login failed" and perform_login returns False.
ProfileSaveIOError ==
    /\ entry = "linkedin_profile_scraper"
    /\ spc \in {"open", "write"}
    /\ loginResult' = "false"
    /\ spc' = "branch"
    /\ UNCHANGED <<file, fileOrigin, run, ctx, pageUrl, cookies_loaded, checkResult,
                   injected, add_raised, saving, saveCalls, loginAttempts, authTrace, scraped>>
    /\ UNCHANGED <<crawlVars, dedupVars, auxVars>>

\* `if not await self.perform_login(page):` log, close the browser and
\* return; otherwise perform_search navigates to the search URL and
\* extract_profile_markdown to every profile it found. Both catch what their
\* page.goto raises, so the page ends on the last profile, on the search
\* URL, or where it was.
ProfileBranch(url) ==
    /\ entry = "linkedin_profile_scraper"
    /\ spc = "branch"
    /\ IF loginResult = "true"
       THEN /\ url \in {pageUrl, SearchUrl, ProfilePageUrl}
            /\ authTrace' = Append(authTrace, "Authenticated")
            /\ scraped' = TRUE
       ELSE /\ url = pageUrl
            /\ authTrace' = Append(authTrace, "LoginFailed")
            /\ scraped' = FALSE
    /\ pageUrl' = url
    /\ spc' = "end"
    /\ UNCHANGED <<file, fileOrigin, run, ctx, cookies_loaded, checkResult,
                   loginResult, injected, add_raised, saving, saveCalls, loginAttempts>>
    /\ UNCHANGED <<crawlVars, dedupVars, auxVars>>

\* debug_scrape, its cookie part: nothing here is in a try, so json.load,
\* add_cookies or page.goto raising ends the script; on the feed the search follows, off it
\* perform_manual_login.
DebugCookieLogin(add_raises, raises, url) ==
    /\ entry = "debug_scraper"
    /\ spc = "start"
    /\ add_raises => (file.exists /\ JsonOk(file.data))
    /\ add_raised' = add_raises
    /\ IF ~file.exists
       THEN /\ raises /\ url = pageUrl
            /\ authTrace' = <<"NeedsLogin">>
            /\ spc' = "login"
            /\ UNCHANGED <<injected, ctx, pageUrl, cookies_loaded, checkResult>>
       ELSE IF ~JsonOk(file.data) \/ add_raises
       THEN /\ raises /\ url = pageUrl
            /\ cookies_loaded' = "false"
            /\ authTrace' = <<"CheckingSession", "Raised">>
            /\ spc' = "end"
            /\ UNCHANGED <<injected, ctx, pageUrl, checkResult>>
       ELSE /\ ~raises => url \in SiteUrls
            /\ cookies_loaded' = "true"
            /\ injected' = JsonLoad(file.data)
            /\ ctx' = JsonLoad(file.data)
            /\ pageUrl' = url
            /\ IF raises
               THEN /\ authTrace' = <<"CheckingSession", "Raised">>
                    /\ spc' = "end"
                    /\ UNCHANGED checkResult
               ELSE IF OnFeed(url)
               THEN /\ checkResult' = "true"
                    /\ authTrace' = <<"CheckingSession">>
                    /\ spc' = "branch"
               ELSE /\ checkResult' = "false"
                    /\ authTrace' = <<"CheckingSession", "NeedsLogin">>
                    /\ spc' = "login"
    /\ UNCHANGED <<file, fileOrigin, run, loginResult, saving, saveCalls, loginAttempts,
                   scraped>>
    /\ UNCHANGED <<crawlVars, dedupVars, auxVars>>

\* perform_manual_login up to wait_for_url: goto, fill and click are outside
\* the try, so their exception ends the script (raises). wait_for_url is
\* inside the try: it returns when the page reaches a URL with 'feed', and it
\* raises (wait_raises) on a timeout, which is what it does on any other
\* URL, or for another reason such as a closed page, whatever the URL is;
\* the except clause logs that and perform_manual_login returns.
DebugManualLogin(raises, wait_raises, url, jar) ==
    /\ entry = "debug_scraper"
    /\ spc = "login"
    /\ ~raises => url \in SiteUrls
    /\ raises => ~wait_raises
    /\ (~raises /\ ~OnFeed(url)) => wait_raises
    /\ loginAttempts' = loginAttempts + 1
    /\ pageUrl' = url
    /\ IF raises
       THEN /\ authTrace' = authTrace \o <<"LoggingIn", "Raised">>
            /\ spc' = "end"
            /\ UNCHANGED <<ctx, loginResult>>
       ELSE IF ~wait_raises
       THEN /\ authTrace' = Append(authTrace, "LoggingIn")
            /\ ctx' = jar
            /\ spc' = "save"
            /\ UNCHANGED loginResult
       ELSE /\ authTrace' = Append(authTrace, "LoggingIn")
            /\ loginResult' = "false"
            /\ spc' = "branch"
            /\ UNCHANGED ctx
    /\ UNCHANGED <<file, fileOrigin, run, cookies_loaded, checkResult, injected, add_raised, saving,
                   saveCalls, scraped>>
    /\ UNCHANGED <<crawlVars, dedupVars, auxVars>>

\* cookies = await page.context.cookies(); os.makedirs(..): an exception is
\* logged by the except clause and perform_manual_login returns.
DebugSaveGetCookies(raises) ==
    /\ entry = "debug_scraper"
    /\ spc = "save"
    /\ saveCalls' = saveCalls + 1
    /\ IF raises
       THEN /\ loginResult' = "true"
            /\ spc' = "branch"
            /\ UNCHANGED saving
       ELSE /\ saving' = ctx
            /\ spc' = "open"
            /\ UNCHANGED loginResult
    /\ UNCHANGED <<file, fileOrigin, run, ctx, pageUrl, cookies_loaded, checkResult,
                   injected, add_raised, loginAttempts, authTrace, scraped>>
    /\ UNCHANGED <<crawlVars, dedupVars, auxVars>>

\* The with block ends and perform_manual_login returns.
DebugSaveClose ==
    /\ entry = "debug_scraper"
    /\ spc = "write"
    /\ Len(file.data) = Len(JsonDump(saving))
    /\ fileOrigin' = [complete |-> TRUE, cookies |-> saving, run |-> run]
    /\ loginResult' = "true"
    /\ spc' = "branch"
    /\ UNCHANGED <<file, run, ctx, pageUrl, cookies_loaded, checkResult, injected, add_raised, saving,
                   saveCalls, loginAttempts, authTrace, scraped>>
    /\ UNCHANGED <<crawlVars, dedupVars, auxVars>>

\* open or a write raises an OSError: logged, perform_manual_login returns.
DebugSaveIOError ==
    /\ entry = "debug_scraper"
    /\ spc \in {"open", "write"}
    /\ loginResult' = "true"
    /\ spc' = "branch"
    /\ UNCHANGED <<file, fileOrigin, run, ctx, pageUrl, cookies_loaded, checkResult,
                   injected, add_raised, saving, saveCalls, loginAttempts, authTrace, scraped>>
    /\ UNCHANGED <<crawlVars, dedupVars, auxVars>>

\* debug_scrape after the login part: whatever perform_manual_login did, the
\* search URL is navigated to and the results are read; page.goto(search_url)
\* leaves the page on the search URL, or where it was when it raises before
\* it has navigated.
DebugBranch(url) ==
    /\ entry = "debug_scraper"
    /\ spc = "branch"
    /\ url \in {pageUrl, SearchUrl}
    /\ pageUrl' = url
    /\ authTrace' = Append(authTrace, IF loginResult = "false" THEN "LoginFailed"
                                                              ELSE "Authenticated")
    /\ scraped' = TRUE
    /\ spc' = "end"
    /\ UNCHANGED <<file, fileOrigin, run, ctx, cookies_loaded, checkResult,
                   loginResult, injected, add_raised, saving, saveCalls, loginAttempts>>
    /\ UNCHANGED <<crawlVars, dedupVars, auxVars>>

\* open(.., 'w') and json.dump are the same statements in the three scripts:
\* SaveOpen and SaveWrite stand for them here too.
EntriesNext ==
    \/ \E raises \in BOOLEAN : \E url \in SiteUrls \cup {pageUrl} :
          \E add_raises \in BOOLEAN : ProfileCookieLogin(add_raises, raises, url)
    \/ \E raises \in BOOLEAN : \E url \in SiteUrls \cup {pageUrl} : \E jar \in CookieJars :
          ProfileManualLogin(raises, url, jar)
    \/ \E raises \in BOOLEAN : ProfileSaveGetCookies(raises)
    \/ ProfileSaveClose
    \/ ProfileSaveIOError
    \/ \E url \in AfterBranchUrls \cup {pageUrl} : ProfileBranch(url)
    \/ \E raises \in BOOLEAN : \E url \in SiteUrls \cup {pageUrl} :
          \E add_raises \in BOOLEAN : DebugCookieLogin(add_raises, raises, url)
    \/ \E raises \in BOOLEAN : \E url \in SiteUrls \cup {pageUrl} : \E jar \in CookieJars :
          \E wait_raises \in BOOLEAN : DebugManualLogin(raises, wait_raises, url, jar)
    \/ \E raises \in BOOLEAN : DebugSaveGetCookies(raises)
    \/ DebugSaveClose
    \/ DebugSaveIOError
    \/ \E url \in AfterBranchUrls \cup {pageUrl} : DebugBranch(url)
    \/ SaveOpen
    \/ SaveWrite

SpecEntries == EntriesInit /\ [][EntriesNext]_vars

(***************************************************************************)
(* Claims about a failed login and a failed save, under SpecEntries.       *)
(***************************************************************************)
\* C11 (as claimed): in every entry point, after a login that failed the run
\* navigates to no target and extracts nothing, and it ends with the one
\* outcome LoginFailed.
C11_FailedLoginAbortsBatch ==
    /\ loginResult = "false" => ~scraped
    /\ (spc = "end" /\ loginResult = "false") =>
          /\ authTrace[Len(authTrace)] = "LoginFailed"
          /\ ~scraped

\* The login of this run landed, and saving its cookies did not complete.
SaveFailed == saveCalls = 1 /\ ~(fileOrigin.complete /\ fileOrigin.run = run)

\* C12 (as claimed): a run whose login landed and whose write of the cookie
\* file failed still ends Authenticated and scrapes.
C12_SaveFailureIsNonFatal ==
    (spc = "end" /\ SaveFailed) =>
        /\ scraped
        /\ authTrace[Len(authTrace)] = "Authenticated"

(***************************************************************************)
(* scroll_page of LinkedInScraper (linkedin_login.py). The page is a       *)
(* finite list of loads, each adding to the document extent; a page of     *)
(* kind "on_bottom" loads the next one when it is scrolled to the bottom,  *)
(* a page of kind "on_wait" when time passes in wait_for_timeout.          *)
(* scroll_page of LinkedInJobScraper (linkedin_jobs.py) is the same loop   *)
(* without the backward scroll: its runs are the runs here in which the    *)
(* random test never succeeds.                                             *)
(***************************************************************************)
notScrollVars == <<crawlVars, dedupVars, sessionVars, entryVars, extractVars, retryVars,
                  moreVars>>

PageKinds == {"on_bottom", "on_wait"}

\* A page without end: every scroll to the bottom makes it load one more part.
EndlessPage == "endless"

\* The scrolls to the bottom followed on a page without end.
MaxScrolls == 4

\* What one load can add to the extent (0: nothing arrived this time).
GrowthSteps == {0, 1}

\* The extent of the page before any load.
InitialHeight == 10

\* The exceptions a page operation raises: playwright's TimeoutError and Error.
PageErrors == {"TimeoutError", "Error"}

\* Mutation: the handler is `except TimeoutError`.
CaughtTimeoutOnly(kind) == kind = "TimeoutError"

\* `except Exception as e:` catches what a page operation raises.
Caught(kind) == kind \in {"TimeoutError", "Error"}

\* Mutation: a growth of one unit counts as none.
ReachedBottomWithinOne(new, prev) == new <= prev + 1

\* Mutation: the test never finds the bottom.
ReachedBottomNever(new, prev) == new < prev

\* `if new_height == prev_height: break`
ReachedBottom(new, prev) == new = prev

\* The extent after the page was given the occasion `occasion` to load.
HeightAfter(occasion) ==
    CASE pageKind = EndlessPage -> IF occasion = "on_bottom" THEN height + 1 ELSE height
      [] pageKind = occasion /\ consumed < Len(growth) -> height + growth[consumed + 1]
      [] OTHER -> height

ConsumedAfter(occasion) ==
    CASE pageKind = EndlessPage -> IF occasion = "on_bottom" THEN consumed + 1 ELSE consumed
      [] pageKind = occasion /\ consumed < Len(growth) -> consumed + 1
      [] OTHER -> consumed

\* The record of the last three page operations after one more.
OpsAfter(op) == <<lastOps[2], lastOps[3], op>>

ScrollInit ==
    /\ CrawlIdle
    /\ DedupIdle
    /\ SessionIdle
    /\ EntryIdle
    /\ ExtractIdle
    /\ RetryIdle
    /\ MoreIdle
    /\ pageKind \in PageKinds
    /\ growth \in SeqsUpTo(GrowthSteps, MaxGrowth)
    /\ consumed = 0
    /\ height = InitialHeight
    /\ prev_height = 0
    /\ new_height = 0
    /\ scpc = "initial"
    /\ steps = 0
    /\ backs = 0
    /\ lastOps = <<"none", "none", "none">>
    /\ exitBy = "none"
    /\ propagated = FALSE
    /\ caller = "await_scroll"

\* prev_height = await page.evaluate('document.body.scrollHeight')
MeasureInitial ==
    /\ scpc = "initial"
    /\ prev_height' = height
    /\ lastOps' = OpsAfter("measure")
    /\ scpc' = "bottom"
    /\ UNCHANGED <<pageKind, growth, consumed, height, new_height, steps, backs, exitBy,
                   propagated, caller>>
    /\ UNCHANGED notScrollVars

\* await page.evaluate('window.scrollTo(0, document.body.scrollHeight)')
ScrollToBottom ==
    /\ scpc = "bottom"
    /\ pageKind = EndlessPage => consumed < MaxScrolls
    /\ height' = HeightAfter("on_bottom")
    /\ consumed' = ConsumedAfter("on_bottom")
    /\ lastOps' = OpsAfter("bottom")
    /\ scpc' = "settle"
    /\ UNCHANGED <<pageKind, growth, prev_height, new_height, steps, backs, exitBy,
                   propagated, caller>>
    /\ UNCHANGED notScrollVars

\* await page.wait_for_timeout(scroll_delay)
SettleDelay ==
    /\ scpc = "settle"
    /\ height' = HeightAfter("on_wait")
    /\ consumed' = ConsumedAfter("on_wait")
    /\ lastOps' = OpsAfter("settle")
    /\ scpc' = "measure"
    /\ UNCHANGED <<pageKind, growth, prev_height, new_height, steps, backs, exitBy,
                   propagated, caller>>
    /\ UNCHANGED notScrollVars

\* new_height = await page.evaluate(..); break when it equals prev_height,
\* else prev_height = new_height and the test `random.random() < 0.3`, whose
\* outcome is back.
MeasureNew(back) ==
    /\ scpc = "measure"
    /\ new_height' = height
    /\ steps' = Min(steps + 1, MaxGrowth + 2)
    /\ lastOps' = OpsAfter("measure")
    /\ IF ReachedBottom(height, prev_height)
       THEN /\ ~back
            /\ exitBy' = "break"
            /\ scpc' = "done"
            /\ UNCHANGED prev_height
       ELSE /\ prev_height' = height
            /\ scpc' = IF back THEN "backward" ELSE "bottom"
            /\ UNCHANGED exitBy
    /\ UNCHANGED <<pageKind, growth, consumed, height, backs, propagated, caller>>
    /\ UNCHANGED notScrollVars

\* Mutation: after the backward scroll the loop measures at once.
BackwardWaitThenMeasure ==
    /\ scpc = "backwait"
    /\ height' = HeightAfter("on_wait")
    /\ consumed' = ConsumedAfter("on_wait")
    /\ lastOps' = OpsAfter("backwait")
    /\ scpc' = "measure"
    /\ UNCHANGED <<pageKind, growth, prev_height, new_height, steps, backs, exitBy,
                   propagated, caller>>
    /\ UNCHANGED notScrollVars

\* await page.evaluate(f'window.scrollBy(0, -{scroll_up})')
BackwardScroll ==
    /\ scpc = "backward"
    /\ backs' = Min(backs + 1, MaxGrowth + 2)
    /\ lastOps' = OpsAfter("backward")
    /\ scpc' = "backwait"
    /\ UNCHANGED <<pageKind, growth, consumed, height, prev_height, new_height, steps,
                   exitBy, propagated, caller>>
    /\ UNCHANGED notScrollVars

\* await page.wait_for_timeout(random.randint(500, 1000)), then the loop
\* starts over with the scroll to the bottom.
BackwardWait ==
    /\ scpc = "backwait"
    /\ height' = HeightAfter("on_wait")
    /\ consumed' = ConsumedAfter("on_wait")
    /\ lastOps' = OpsAfter("backwait")
    /\ scpc' = "bottom"
    /\ UNCHANGED <<pageKind, growth, prev_height, new_height, steps, backs, exitBy,
                   propagated, caller>>
    /\ UNCHANGED notScrollVars

\* The page operation scroll_page is about to await raises: the except clause
\* logs the error and scroll_page returns, unless the clause does not catch it.
PageOpRaises(kind) ==
    /\ scpc \in {"initial", "bottom", "settle", "measure", "backward", "backwait"}
    /\ exitBy' = "exception"
    /\ propagated' = ~Caught(kind)
    /\ scpc' = "done"
    /\ UNCHANGED <<pageKind, growth, consumed, height, prev_height, new_height, steps,
                   backs, lastOps, caller>>
    /\ UNCHANGED notScrollVars

\* The caller after `await self.scroll_page(page)`: it goes on to query the
\* cards, or, had an exception come out, to its own handler.
CallerResumes ==
    /\ scpc = "done"
    /\ caller = "await_scroll"
    /\ caller' = IF propagated THEN "except" ELSE "extract"
    /\ UNCHANGED <<pageKind, growth, consumed, height, prev_height, new_height, scpc,
                   steps, backs, lastOps, exitBy, propagated>>
    /\ UNCHANGED notScrollVars

ScrollNext ==
    \/ MeasureInitial
    \/ ScrollToBottom
    \/ SettleDelay
    \/ \E back \in BOOLEAN : MeasureNew(back)
    \/ BackwardScroll
    \/ BackwardWait
    \/ \E kind \in PageErrors : PageOpRaises(kind)
    \/ CallerResumes

SpecScroll == ScrollInit /\ [][ScrollNext]_vars

\* Each await of scroll_page returns or raises within its timeout, and the
\* event loop then runs the coroutine on: no step of it stays enabled forever.
SpecScrollFair == SpecScroll /\ WF_vars(ScrollNext)

(***************************************************************************)
(* Claims about scroll_page, under SpecScroll and SpecScrollFair.          *)
(***************************************************************************)
\* C14: on a page that loads finitely many times, scroll_page comes to its
\* end, whether or not backward scrolls are made.
C14_ScrollTerminates == <>(scpc = "done")

\* C14 witness: the loop left by its break after the page had grown twice and
\* a backward scroll had been made.
C14_Witness ==
    /\ scpc = "done"
    /\ exitBy = "break"
    /\ steps >= 3
    /\ backs >= 1
    /\ height = InitialHeight + 2

\* The step at which the loop breaks when no backward scroll is made: the
\* first load that adds nothing, or the one after the last load.
ExitStepNoBackward ==
    CHOOSE k \in 1..(Len(growth) + 1) :
        /\ \A j \in 1..(k - 1) : growth[j] # 0
        /\ IF k <= Len(growth) THEN growth[k] = 0 ELSE TRUE

\* C15 (as claimed): every extent measured in the loop is measured directly
\* after a scroll to the bottom and its settle delay, and for one and the same
\* page the loop breaks at the same step whether or not backward scrolls are
\* made.
C15_BackwardScrollNeverMatters ==
    /\ (lastOps[3] = "measure" /\ steps >= 1) => lastOps = <<"bottom", "settle", "measure">>
    /\ exitBy = "break" => steps = ExitStepNoBackward

\* C15 (amended): every extent measured in the loop is measured directly
\* after a scroll to the bottom and its settle delay and is compared with the
\* measurement before it, the first of them with the extent measured before
\* any scroll; on a page that loads only when scrolled to the bottom, the loop
\* breaks at the same step whether or not backward scrolls are made.
C15_MeasuredAfterBottomAndSettle ==
    /\ (lastOps[3] = "measure" /\ steps >= 1) => lastOps = <<"bottom", "settle", "measure">>
    /\ (scpc \notin {"idle", "initial"} /\ exitBy # "exception") =>
          prev_height = IF steps = 0 THEN InitialHeight ELSE new_height
    /\ (pageKind = "on_bottom" /\ exitBy = "break") => steps = ExitStepNoBackward

\* C15 witness: on a page that loads when scrolled to the bottom, the loop
\* made a backward scroll and later left by its break.
C15_Witness ==
    /\ pageKind = "on_bottom"
    /\ exitBy = "break"
    /\ backs >= 1
    /\ steps = ExitStepNoBackward
    /\ steps >= 2

\* C16: no exception of a page operation comes out of scroll_page: the caller
\* goes on to the extraction.
C16_ScrollNeverPropagates ==
    /\ ~propagated
    /\ caller \in {"idle", "await_scroll", "extract"}
    /\ exitBy = "exception" => scpc = "done"

\* C16 witness: a page operation raised inside the loop and the caller has
\* gone on to the extraction.
C16_Witness ==
    /\ exitBy = "exception"
    /\ steps >= 1
    /\ caller = "extract"

(***************************************************************************)
(* extract_linkedin_profiles of google_search.py. A text is a sequence of  *)
(* tokens: the characters and words the function tells apart ('[', ']',    *)
(* '(', ')', '<', '>', newline, '## ', ' - ', '**', ' at ', '+', digits,   *)
(* the word connections, the redirect host, the pieces of a URL) are       *)
(* tokens of their own, other text between them is one token.              *)
(***************************************************************************)
notExtractVars == <<crawlVars, dedupVars, sessionVars, entryVars, scrollVars, retryVars,
                   moreVars>>

BingHost == "https://www.bing.com/"
OtherHost == "https://x/"
LinkedInUrl == <<"https:/", "/www.", "linkedin.com/in/", "jane">>
OtherUrl == <<"https:/", "/www.", "example.com/", "jane">>

\* What str.strip() removes, and what \d+ matches.
Whitespace == {"\n", " "}
DigitTokens == {"500"}

\* The fields of the dataclass LinkedInProfile that have a default, and the
\* default designation of the function.
NotSpecified == <<"Not specified">>
DefaultDesignation == <<"HR Professional">>

\* The texts of the model: a header, a title line, and what follows it.
Headers ==
    {[host |-> BingHost, url |-> LinkedInUrl], [host |-> OtherHost, url |-> LinkedInUrl],
     [host |-> BingHost, url |-> OtherUrl]}
TitleFull == <<"**", "Jane Doe", "**", " - ", "**", "HR Manager", " at ", "Acme", "**">>
TitleNameOnly == <<"Jane Doe">>
TitleNoCompany == <<"Jane Doe", " - ", "Recruiter">>
Titles == {TitleFull, TitleNameOnly, TitleNoCompany}
FollowingConnections == <<"\n", "500", "+", " ", "connections">>
FollowingText == <<"\n", "Experienced recruiter", "\n">>
Followings == {<<>>, FollowingConnections, FollowingText}
EntrySet ==
    {[host |-> h.host, url |-> h.url, title |-> t, after |-> a] :
        h \in Headers, t \in Titles, a \in Followings}
Tails == {<<>>, <<"[", "Next", "]">>}

\* The text of one entry: [Jane Doe](host<url>) newline ## [title] following.
EntryText(e) ==
    <<"[", "Jane Doe", "]", "(", e.host, "<">> \o e.url
        \o <<">", ")", "\n", "## ", "[">> \o e.title \o <<"]">> \o e.after

RECURSIVE Concat(_)
Concat(es) == IF es = <<>> THEN <<>> ELSE EntryText(Head(es)) \o Concat(Tail(es))

\* t[k], or the empty string past the ends of t.
At(t, k) == IF k \in 1..Len(t) THEN t[k] ELSE ""

\* The first index from p on where t holds tok, 0 when there is none.
NextIdx(t, p, tok) ==
    IF \E q \in p..Len(t) : t[q] = tok
    THEN CHOOSE q \in p..Len(t) : t[q] = tok /\ \A r \in p..(q - 1) : t[r] # tok
    ELSE 0

\* The literal https://www\.bing\.com/ of profile_pattern.
HostMatches(tok) == tok = BingHost

\* profile_pattern tried at position p of t:
\* \[([^\]]+)\]\(https://www\.bing\.com/<(https:/[^>]+)>\)\n## \[([^\]]+)\]
MatchAt(t, p) ==
    LET q1 == NextIdx(t, p + 1, "]")
        q2 == IF q1 = 0 THEN 0 ELSE NextIdx(t, q1 + 5, ">")
        q3 == IF q2 = 0 THEN 0 ELSE NextIdx(t, q2 + 5, "]")
        ok == /\ At(t, p) = "["
              /\ q1 > p + 1
              /\ At(t, q1 + 1) = "("
              /\ HostMatches(At(t, q1 + 2))
              /\ At(t, q1 + 3) = "<"
              /\ At(t, q1 + 4) = "https:/"
              /\ q2 > q1 + 5
              /\ At(t, q2 + 1) = ")"
              /\ At(t, q2 + 2) = "\n"
              /\ At(t, q2 + 3) = "## "
              /\ At(t, q2 + 4) = "["
              /\ q3 > q2 + 5
    IN  IF ok
        THEN [ok |-> TRUE, first |-> p, last |-> q3,
              g0 |-> SubSeq(t, p, q3),
              g1 |-> SubSeq(t, p + 1, q1 - 1),
              g2 |-> SubSeq(t, q1 + 4, q2 - 1),
              g3 |-> SubSeq(t, q2 + 5, q3 - 1)]
        ELSE [ok |-> FALSE, first |-> p, last |-> p,
              g0 |-> <<>>, g1 |-> <<>>, g2 |-> <<>>, g3 |-> <<>>]

\* re.finditer(profile_pattern, markdown_content) from position p on: the
\* matches from left to right, none overlapping another.
RECURSIVE FindIter(_, _)
FindIter(t, p) ==
    IF p > Len(t) THEN <<>>
    ELSE IF MatchAt(t, p).ok
         THEN <<MatchAt(t, p)>> \o FindIter(t, MatchAt(t, p).last + 1)
         ELSE FindIter(t, p + 1)

\* s.split(sep)
RECURSIVE Split(_, _)
Split(s, sep) ==
    LET k == NextIdx(s, 1, sep)
    IN  IF k = 0 THEN <<s>>
        ELSE <<SubSeq(s, 1, k - 1)>> \o Split(SubSeq(s, k + 1, Len(s)), sep)

\* s.strip(chars): the tokens of S are taken off both ends.
RECURSIVE Strip(_, _)
Strip(s, S) ==
    IF s = <<>> THEN s
    ELSE IF s[1] \in S THEN Strip(Tail(s), S)
    ELSE IF s[Len(s)] \in S THEN Strip(SubSeq(s, 1, Len(s) - 1), S)
    ELSE s

\* s.lower()
LowerTok(tok) ==
    CASE tok = " AT " -> " at "
      [] tok = " At " -> " at "
      [] tok = "Connections" -> "connections"
      [] OTHER -> tok
Lower(s) == [k \in 1..Len(s) |-> LowerTok(s[k])]

\* t.find(x) for an x that occurs in t: where it occurs first.
FindSub(t, x) ==
    CHOOSE p \in 1..(Len(t) - Len(x) + 1) :
        /\ SubSeq(t, p, p + Len(x) - 1) = x
        /\ \A q \in 1..(p - 1) : SubSeq(t, q, q + Len(x) - 1) # x

\* (\d+)\+?\s*connections, ignoring case, tried at position p of d.
ConnAt(d, p) ==
    /\ d[p] \in DigitTokens
    /\ LET a == IF At(d, p + 1) = "+" THEN p + 2 ELSE p + 1
       IN  \E b \in a..Len(d) :
              /\ \A k \in a..(b - 1) : d[k] \in Whitespace
              /\ LowerTok(d[b]) = "connections"

\* re.search of that pattern in d: the position of the first match, else 0.
ConnSearch(d) ==
    IF \E p \in 1..Len(d) : ConnAt(d, p)
    THEN CHOOSE p \in 1..Len(d) : ConnAt(d, p) /\ \A q \in 1..(p - 1) : ~ConnAt(d, q)
    ELSE 0

\* company, from the second part of the title when there is one.
CompanyOf(has_second, designation) ==
    IF has_second /\ " at " \in Range(Lower(designation))
    THEN Strip(Split(designation, " at ")[Len(Split(designation, " at "))], Whitespace)
    ELSE IF has_second /\ " @ " \in Range(designation)
    THEN Strip(Split(designation, " @ ")[Len(Split(designation, " @ "))], Whitespace)
    ELSE NotSpecified

\* The body of `for match in matches` for a match m whose URL is a profile
\* URL: the LinkedInProfile it appends.
ProfileOf(t, m) ==
    LET title_parts == Split(m.g3, " - ")
        name == Strip(title_parts[1], {"**"})
        has_second == Len(title_parts) > 1
        designation == IF has_second THEN Strip(title_parts[2], {"**"})
                       ELSE DefaultDesignation
        desc_start == FindSub(t, m.g0) + Len(m.g0)
        next_section == NextIdx(t, desc_start, "[")
        description == IF next_section # 0
                       THEN Strip(SubSeq(t, desc_start, next_section - 1), Whitespace)
                       ELSE <<>>
        conn == ConnSearch(description)
        connections == IF "connections" \in Range(Lower(description)) /\ conn # 0
                       THEN <<description[conn], "+">>
                       ELSE NotSpecified
    IN  [name |-> name, designation |-> designation, url |-> m.g2,
         description |-> description, connections |-> connections,
         company |-> CompanyOf(has_second, designation)]

\* The loop over the matches: those whose URL does not hold
\* 'linkedin.com/in/' are passed over.
RECURSIVE ProfilesOf(_, _)
ProfilesOf(t, ms) ==
    IF ms = <<>> THEN <<>>
    ELSE IF "linkedin.com/in/" \notin Range(Head(ms).g2)
         THEN ProfilesOf(t, Tail(ms))
         ELSE <<ProfileOf(t, Head(ms))>> \o ProfilesOf(t, Tail(ms))

\* extract_linkedin_profiles(markdown_content, search_query)
extract_linkedin_profiles(t) == ProfilesOf(t, FindIter(t, 1))

ExtractInit ==
    /\ CrawlIdle
    /\ DedupIdle
    /\ SessionIdle
    /\ EntryIdle
    /\ ScrollIdle
    /\ RetryIdle
    /\ MoreIdle
    /\ entries \in SeqsUpTo(EntrySet, MaxEntries)
    /\ markdown_content \in {Concat(entries) \o tl : tl \in Tails}
    /\ profiles = <<>>
    /\ epc = "call"

\* The call returns its list.
ExtractCall ==
    /\ epc = "call"
    /\ profiles' = extract_linkedin_profiles(markdown_content)
    /\ epc' = "returned"
    /\ UNCHANGED <<entries, markdown_content>>
    /\ UNCHANGED notExtractVars

ExtractNext == ExtractCall

SpecExtract == ExtractInit /\ [][ExtractNext]_vars

(***************************************************************************)
(* Claims about extract_linkedin_profiles, under SpecExtract.              *)
(***************************************************************************)
\* C17 (as claimed): a text of one entry, a header [text](redirect/<url>) with
\* a profile URL, the title line ## [**Jane Doe** - **HR Manager at Acme**]
\* and a following 500+ connections, yields exactly one record, with name
\* Jane Doe, designation HR Manager at Acme, company Acme, connections 500+.
C17_HeaderTitleConnectionsYieldOneRecord ==
    (/\ epc = "returned"
     /\ Len(entries) = 1
     /\ entries[1].url = LinkedInUrl
     /\ entries[1].title = TitleFull
     /\ entries[1].after = FollowingConnections) =>
        /\ Len(profiles) = 1
        /\ profiles[1].name = <<"Jane Doe">>
        /\ profiles[1].designation = <<"HR Manager", " at ", "Acme">>
        /\ profiles[1].company = <<"Acme">>
        /\ profiles[1].connections = <<"500", "+">>

\* The entries the pattern matches and the loop keeps: those behind the Bing
\* redirect whose URL is a profile URL.
IsMatchedEntry(e) == e.host = BingHost /\ e.url = LinkedInUrl
MatchedEntries == SelectSeq(entries, IsMatchedEntry)

\* C18 (as claimed): every matched entry is emitted as a record, and a field
\* the entry does not give has its default: no ' - ' part in the title gives
\* the default designation and company Not specified, no separator gives
\* company Not specified, nothing following the title gives the empty
\* description, no connections pattern gives connections Not specified.
C18_MissingFieldsGetDefaults ==
    epc = "returned" =>
        /\ Len(profiles) = Len(MatchedEntries)
        /\ \A k \in 1..Len(MatchedEntries) :
              LET e == MatchedEntries[k]
                  r == profiles[k]
              IN  /\ " - " \notin Range(e.title) =>
                        r.designation = DefaultDesignation /\ r.company = NotSpecified
                  /\ (" at " \notin Range(e.title) /\ " @ " \notin Range(e.title)) =>
                        r.company = NotSpecified
                  /\ e.after = <<>> => r.description = <<>>
                  /\ "connections" \notin Range(e.after) => r.connections = NotSpecified

\* C30 (as claimed): the description of every matched entry is the text that
\* follows its own header, up to the next '[' or to the end of the input,
\* with the white space at its ends taken off; also for the last entry and
\* for entries with the same header text.
C30_DescriptionFollowsOwnHeader ==
    epc = "returned" =>
        /\ Len(profiles) = Len(MatchedEntries)
        /\ \A k \in 1..Len(MatchedEntries) :
              profiles[k].description = Strip(MatchedEntries[k].after, Whitespace)

\* The description of an entry that is followed by a '[' and whose header
\* and title no earlier entry has is as claimed.
DescriptionAsClaimedWhenFirstAndFollowed ==
    epc = "returned" =>
        /\ Len(profiles) = Len(MatchedEntries)
        /\ \A k \in 1..Len(entries) :
              LET e == entries[k]
                  n == Len(SelectSeq(SubSeq(entries, 1, k), IsMatchedEntry))
                  followed == k < Len(entries) \/ "[" \in Range(SubSeq(markdown_content,
                                  Len(markdown_content) - 2, Len(markdown_content)))
                  first == \A j \in 1..(k - 1) :
                              ~(entries[j].host = e.host /\ entries[j].url = e.url
                                /\ entries[j].title = e.title)
              IN  (IsMatchedEntry(e) /\ followed /\ first) =>
                      profiles[n].description = Strip(e.after, Whitespace)

(***************************************************************************)
(* search_and_scrape_profile of LinkedInScraper (linkedin_login.py): the   *)
(* steps before its retry loop, the loop, and the outer handler.           *)
(***************************************************************************)
notRetryVars == <<crawlVars, dedupVars, sessionVars, entryVars, scrollVars, extractVars,
                 moreVars>>

max_retries == 3

\* How one pass through the try block of the loop can go. An await of the
\* try block itself raises: the wait for the link, the bounding box, the
\* mouse move, the click, the wait for the profile card, or one of the
\* page.wait_for_timeout calls. Or the link or its box is not there. Or the
\* pass comes to the markdown call, which returns something or nothing;
\* crawler.arun raising is caught inside get_crawl4ai_markdown, which then
\* returns None, and scroll_page catches what its own awaits raise.
RaiseOutcomes == {"raise_wait_for_selector", "raise_bounding_box", "raise_mouse_move",
                  "raise_click", "raise_top_card", "raise_wait_for_timeout"}
NotFoundOutcomes == {"no_element", "no_box"}
ReturnOutcomes == {"markdown", "no_markdown", "raise_markdown"}
AttemptOutcomes == RaiseOutcomes \cup NotFoundOutcomes \cup ReturnOutcomes

\* Mutation: a link that is not there is handled like an exception.
EntersHandlerAlsoNotFound(outcome) == outcome \in RaiseOutcomes \cup NotFoundOutcomes

\* The outcomes that reach `except Exception as retry_error`.
EntersHandler(outcome) == outcome \in RaiseOutcomes

RetryInit ==
    /\ CrawlIdle
    /\ DedupIdle
    /\ SessionIdle
    /\ EntryIdle
    /\ ScrollIdle
    /\ ExtractIdle
    /\ MoreIdle
    /\ attempt = 0
    /\ rpc = "before_loop"
    /\ attemptLog = <<>>
    /\ returned = "unset"

\* The sleep, the viewport, page.goto, the waits and the mouse moves before
\* the loop: when one raises, the outer handler returns None.
BeforeLoop(raises) ==
    /\ rpc = "before_loop"
    /\ IF raises
       THEN /\ returned' = "None"
            /\ rpc' = "done"
       ELSE /\ rpc' = "try"
            /\ UNCHANGED returned
    /\ UNCHANGED <<attempt, attemptLog>>
    /\ UNCHANGED notRetryVars

\* One pass through the try block of the loop.
Attempt(outcome) ==
    /\ rpc = "try"
    /\ attemptLog' = Append(attemptLog, outcome)
    /\ IF EntersHandler(outcome)
       THEN /\ rpc' = "handler"
            /\ UNCHANGED returned
       ELSE \* return markdown, return None, or break and return None
            /\ returned' = IF outcome = "markdown" THEN "markdown" ELSE "None"
            /\ rpc' = "done"
    /\ UNCHANGED attempt
    /\ UNCHANGED notRetryVars

\* `except Exception as retry_error`: before the last attempt, log, wait and
\* continue with the next value of attempt; at the last, raise again, which
\* the outer handler answers with None. The wait can raise too: that
\* exception also goes to the outer handler.
RetryHandler(wait_raises) ==
    /\ rpc = "handler"
    /\ IF attempt < max_retries - 1
       THEN IF wait_raises
            THEN /\ returned' = "None"
                 /\ rpc' = "done"
                 /\ UNCHANGED attempt
            ELSE /\ attempt' = attempt + 1
                 /\ rpc' = "try"
                 /\ UNCHANGED returned
       ELSE /\ ~wait_raises
            /\ returned' = "None"
            /\ rpc' = "done"
            /\ UNCHANGED attempt
    /\ UNCHANGED attemptLog
    /\ UNCHANGED notRetryVars

RetryNext ==
    \/ \E raises \in BOOLEAN : BeforeLoop(raises)
    \/ \E outcome \in AttemptOutcomes : Attempt(outcome)
    \/ \E wait_raises \in BOOLEAN : RetryHandler(wait_raises)

SpecRetry == RetryInit /\ [][RetryNext]_vars

(***************************************************************************)
(* Claims about the retry loop, under SpecRetry.                           *)
(***************************************************************************)
\* C20: the loop makes at most 3 attempts; every attempt but the last one
\* made raised; after the third failure, and after an attempt that returned
\* or found nothing without raising, no further attempt is made.
C20_AtMostThreeAttempts ==
    /\ Len(attemptLog) <= 3
    /\ \A k \in 1..(Len(attemptLog) - 1) : attemptLog[k] \in RaiseOutcomes
    /\ (Len(attemptLog) = 3 /\ attemptLog[3] \in RaiseOutcomes) => rpc \in {"handler", "done"}
    /\ (attemptLog # <<>> /\ attemptLog[Len(attemptLog)] \notin RaiseOutcomes) =>
          /\ rpc = "done"
          /\ returned = IF attemptLog[Len(attemptLog)] = "markdown" THEN "markdown" ELSE "None"
    /\ rpc = "try" => Len(attemptLog) = attempt

\* C20 witness: three attempts raised and the function has returned None.
C20_Witness ==
    /\ Len(attemptLog) = 3
    /\ \A k \in 1..3 : attemptLog[k] \in RaiseOutcomes
    /\ rpc = "done"
    /\ returned = "None"

(***************************************************************************)
(* The browser of crawl_parallel (google_search.py), of                    *)
(* LinkedInJobScraper.scrape_jobs (linkedin_jobs.py) and of                *)
(* LinkedInProfileScraper.scrape_profiles (linkedin_profile_scraper.py):   *)
(* where it is started, which exceptions leave which block, and where      *)
(* close() is called. The body of a function is a number of steps (the     *)
(* windows of crawl_parallel, the page operations of the two scrapers),    *)
(* each of which can raise or be interrupted.                              *)
(***************************************************************************)
notReleaseVars == <<crawlVars, dedupVars, sessionVars, entryVars, scrollVars, extractVars,
                    retryVars, classVars, lateVars>>

MaxBodySteps == 3

ReleaseFns == {"crawl_parallel", "scrape_jobs", "scrape_profiles"}

\* What a step can raise: an Exception, or one of the two BaseExceptions of
\* a user interrupt (KeyboardInterrupt raised in the coroutine, CancelledError
\* when the event loop cancels the task).
Interrupts == {"KeyboardInterrupt", "CancelledError"}
Raisables == {"Exception"} \cup Interrupts

\* `except Exception` catches Exception and not the BaseExceptions.
ExceptExceptionCatches(exc) == exc = "Exception"

\* The outer handlers of scrape_jobs: `except KeyboardInterrupt` and `except Exception`.
OuterHandlersCatch(exc) == exc = "KeyboardInterrupt" \/ ExceptExceptionCatches(exc)

ReleaseInit ==
    /\ CrawlIdle
    /\ DedupIdle
    /\ SessionIdle
    /\ EntryIdle
    /\ ScrollIdle
    /\ ExtractIdle
    /\ RetryIdle
    /\ ClassIdle
    /\ LateIdle
    /\ fn \in ReleaseFns
    /\ relpc = "launch"
    /\ browser = "None"
    /\ scope = (fn # "crawl_parallel")
    /\ closeCalls = 0
    /\ pending = "none"
    /\ todo \in 0..MaxBodySteps
    /\ ended = "no"

\* await crawler.start() / browser = await p.chromium.launch(...). When it
\* raises there is no browser: crawl_parallel lets the exception out (start
\* is before the try), the two scrapers leave the `async with`.
Launch(raises) ==
    /\ relpc = "launch"
    /\ IF raises
       THEN /\ pending' = "Exception"
            /\ browser' = browser
            /\ IF fn = "crawl_parallel"
               THEN relpc' = "ended" /\ ended' = "raised"
               ELSE relpc' = "exit_scope" /\ ended' = ended
       ELSE /\ browser' = "open"
            /\ pending' = pending
            /\ ended' = ended
            /\ relpc' = IF fn = "crawl_parallel" THEN "body" ELSE "setup"
    /\ UNCHANGED <<fn, scope, closeCalls, todo>>
    /\ UNCHANGED notReleaseVars

\* browser.new_context(...) and context.new_page(): after the launch and, in
\* scrape_jobs, before the inner try.
Setup(exc) ==
    /\ relpc = "setup"
    /\ IF exc = "none"
       THEN relpc' = "body" /\ pending' = pending
       ELSE relpc' = "exit_scope" /\ pending' = exc
    /\ UNCHANGED <<fn, browser, scope, closeCalls, todo, ended>>
    /\ UNCHANGED notReleaseVars

\* One step of the body. In crawl_parallel whatever it raises goes to the
\* finally block; in scrape_jobs the inner `except Exception` catches an
\* Exception and the finally block follows in every case; scrape_profiles
\* has no handler inside the `async with`.
BodyStep(exc) ==
    /\ relpc = "body"
    /\ todo > 0
    /\ IF exc = "none"
       THEN /\ todo' = todo - 1
            /\ UNCHANGED <<relpc, pending>>
       ELSE /\ todo' = todo
            /\ CASE fn = "crawl_parallel" -> relpc' = "finally" /\ pending' = exc
                 [] fn = "scrape_jobs" ->
                      /\ relpc' = "finally"
                      /\ pending' = IF ExceptExceptionCatches(exc) THEN "none" ELSE exc
                 [] OTHER -> relpc' = "exit_scope" /\ pending' = exc
    /\ UNCHANGED <<fn, browser, scope, closeCalls, ended>>
    /\ UNCHANGED notReleaseVars

\* The body gives up: scrape_profiles closes the browser and returns when
\* the login failed or the search found nothing; scrape_jobs logs
\* "Login failed" in the else branch and goes on to its finally block.
BodyGivesUp ==
    /\ relpc = "body"
    /\ fn # "crawl_parallel"
    /\ IF fn = "scrape_profiles"
       THEN /\ closeCalls' = closeCalls + 1
            /\ browser' = "closed"
            /\ relpc' = "exit_scope"
       ELSE /\ relpc' = "finally"
            /\ UNCHANGED <<browser, closeCalls>>
    /\ UNCHANGED <<fn, scope, pending, todo, ended>>
    /\ UNCHANGED notReleaseVars

\* The body has run to its end: scrape_profiles closes the browser as its
\* last statement, the other two go on to their finally block.
BodyEnd ==
    /\ relpc = "body"
    /\ todo = 0
    /\ IF fn = "scrape_profiles"
       THEN /\ closeCalls' = closeCalls + 1
            /\ browser' = "closed"
            /\ relpc' = "exit_scope"
       ELSE /\ relpc' = "finally"
            /\ UNCHANGED <<browser, closeCalls>>
    /\ UNCHANGED <<fn, scope, pending, todo, ended>>
    /\ UNCHANGED notReleaseVars

\* finally: await crawler.close() in crawl_parallel, after which the
\* function returns or the exception goes on; `if browser: await
\* browser.close()` in scrape_jobs, after which the `async with` is left.
Finally ==
    /\ relpc = "finally"
    /\ closeCalls' = closeCalls + 1
    /\ browser' = "closed"
    /\ IF fn = "crawl_parallel"
       THEN /\ relpc' = "ended"
            /\ ended' = IF pending = "none" THEN "returned" ELSE "raised"
       ELSE /\ relpc' = "exit_scope"
            /\ ended' = ended
    /\ UNCHANGED <<fn, scope, pending, todo>>
    /\ UNCHANGED notReleaseVars

\* The `async with async_playwright()` block is left: the driver is stopped,
\* which ends a browser that is still open. Then scrape_profiles catches an
\* Exception in its `except Exception` and returns; scrape_jobs enters one of
\* its outer handlers; what no handler catches leaves the function.
ExitScope ==
    /\ relpc = "exit_scope"
    /\ scope' = FALSE
    /\ browser' = IF browser = "open" THEN "closed" ELSE browser
    /\ CASE pending = "none" ->
              /\ relpc' = "ended"
              /\ ended' = "returned"
              /\ pending' = pending
         [] fn = "scrape_jobs" /\ OuterHandlersCatch(pending) ->
              /\ relpc' = "handler"
              /\ ended' = ended
              /\ pending' = "none"
         [] fn = "scrape_profiles" /\ ExceptExceptionCatches(pending) ->
              /\ relpc' = "ended"
              /\ ended' = "returned"
              /\ pending' = "none"
         [] OTHER ->
              /\ relpc' = "ended"
              /\ ended' = "raised"
              /\ pending' = pending
    /\ UNCHANGED <<fn, closeCalls, todo>>
    /\ UNCHANGED notReleaseVars

\* An outer handler of scrape_jobs: `if browser: await browser.close()`. The
\* browser it closes is already closed and its driver stopped; whether that
\* call returns or raises is not fixed by this code.
OuterHandler(raises) ==
    /\ relpc = "handler"
    /\ IF browser = "None"
       THEN /\ closeCalls' = closeCalls
            /\ ended' = "returned"
            /\ pending' = pending
       ELSE /\ closeCalls' = closeCalls + 1
            /\ ended' = IF raises THEN "raised" ELSE "returned"
            /\ pending' = IF raises THEN "Exception" ELSE pending
    /\ relpc' = "ended"
    /\ UNCHANGED <<fn, browser, scope, todo>>
    /\ UNCHANGED notReleaseVars

ReleaseNext ==
    \/ \E raises \in BOOLEAN : Launch(raises)
    \/ \E exc \in {"none"} \cup Raisables : Setup(exc)
    \/ \E exc \in {"none"} \cup Raisables : BodyStep(exc)
    \/ BodyGivesUp
    \/ BodyEnd
    \/ Finally
    \/ ExitScope
    \/ \E raises \in BOOLEAN : OuterHandler(raises)

SpecRelease == ReleaseInit /\ [][ReleaseNext]_vars

\* The browser was started in this run.
Started == browser # "None"

\* Every run that started its browser ends with the browser released.
ReleasedAtEnd == (ended # "no" /\ Started) => browser = "closed"

\* crawl_parallel calls crawler.close() once on every exit path after start.
CrawlerClosedOnce ==
    (fn = "crawl_parallel" /\ ended # "no" /\ Started) => closeCalls = 1

\* C22 (as claimed): on every exit path of a run that started its browser,
\* the browser is released when the function returns, and it is released
\* once: close() is not called a second time.
C22_ReleasedExactlyOnce ==
    (ended # "no" /\ Started) => (browser = "closed" /\ closeCalls <= 1)

(***************************************************************************)
(* The scroll loop on any page, a page without end included, and the loop  *)
(* of the same purpose in the js_code of search_config (crawler.py):       *)
(*   let prevHeight = 0; let newHeight = <extent>;                         *)
(*   while (prevHeight !== newHeight) { prevHeight = newHeight;            *)
(*       <scroll to bottom>; <wait 2000>; newHeight = <extent>; }          *)
(* It runs after waitForSelector('.search-results-container') returned,    *)
(* on a page with content.                                                 *)
(***************************************************************************)
AllPageKinds == PageKinds \cup {EndlessPage}

ScrollAnyInit ==
    /\ CrawlIdle
    /\ DedupIdle
    /\ SessionIdle
    /\ EntryIdle
    /\ ExtractIdle
    /\ RetryIdle
    /\ MoreIdle
    /\ pageKind \in AllPageKinds
    /\ growth \in (IF pageKind = EndlessPage THEN {<<>>} ELSE SeqsUpTo(GrowthSteps, MaxGrowth))
    /\ consumed = 0
    /\ height = InitialHeight
    /\ prev_height = 0
    /\ new_height = 0
    /\ \/ scpc = "initial" /\ caller = "await_scroll"
       \/ scpc = "js_initial" /\ caller = "js_code"
    /\ steps = 0
    /\ backs = 0
    /\ lastOps = <<"none", "none", "none">>
    /\ exitBy = "none"
    /\ propagated = FALSE

\* let prevHeight = 0; let newHeight = await page.evaluate(() => document.body.scrollHeight);
JsMeasureInitial ==
    /\ scpc = "js_initial"
    /\ prev_height' = 0
    /\ new_height' = height
    /\ lastOps' = OpsAfter("measure")
    /\ scpc' = "js_test"
    /\ UNCHANGED <<pageKind, growth, consumed, height, steps, backs, exitBy, propagated,
                   caller>>
    /\ UNCHANGED notScrollVars

\* while (prevHeight !== newHeight) { prevHeight = newHeight; ...
JsTest ==
    /\ scpc = "js_test"
    /\ IF ReachedBottom(new_height, prev_height)
       THEN /\ exitBy' = "break"
            /\ scpc' = "done"
            /\ UNCHANGED prev_height
       ELSE /\ prev_height' = new_height
            /\ scpc' = "js_bottom"
            /\ UNCHANGED exitBy
    /\ UNCHANGED <<pageKind, growth, consumed, height, new_height, steps, backs, lastOps,
                   propagated, caller>>
    /\ UNCHANGED notScrollVars

\* await page.evaluate(() => window.scrollTo(0, document.body.scrollHeight));
JsScrollToBottom ==
    /\ scpc = "js_bottom"
    /\ pageKind = EndlessPage => consumed < MaxScrolls
    /\ height' = HeightAfter("on_bottom")
    /\ consumed' = ConsumedAfter("on_bottom")
    /\ lastOps' = OpsAfter("bottom")
    /\ scpc' = "js_settle"
    /\ UNCHANGED <<pageKind, growth, prev_height, new_height, steps, backs, exitBy,
                   propagated, caller>>
    /\ UNCHANGED notScrollVars

\* await page.waitForTimeout(2000);
JsSettle ==
    /\ scpc = "js_settle"
    /\ height' = HeightAfter("on_wait")
    /\ consumed' = ConsumedAfter("on_wait")
    /\ lastOps' = OpsAfter("settle")
    /\ scpc' = "js_measure"
    /\ UNCHANGED <<pageKind, growth, prev_height, new_height, steps, backs, exitBy,
                   propagated, caller>>
    /\ UNCHANGED notScrollVars

\* newHeight = await page.evaluate(() => document.body.scrollHeight); }
JsMeasure ==
    /\ scpc = "js_measure"
    /\ new_height' = height
    /\ steps' = Min(steps + 1, MaxGrowth + 2)
    /\ lastOps' = OpsAfter("measure")
    /\ scpc' = "js_test"
    /\ UNCHANGED <<pageKind, growth, consumed, height, prev_height, backs, exitBy,
                   propagated, caller>>
    /\ UNCHANGED notScrollVars

\* A page operation of the snippet raises: nothing in it catches, the
\* exception leaves the loop and the snippet.
JsOpRaises ==
    /\ scpc \in {"js_initial", "js_bottom", "js_settle", "js_measure"}
    /\ exitBy' = "exception"
    /\ propagated' = TRUE
    /\ scpc' = "done"
    /\ UNCHANGED <<pageKind, growth, consumed, height, prev_height, new_height, steps,
                   backs, lastOps, caller>>
    /\ UNCHANGED notScrollVars

ScrollAnyNext ==
    \/ ScrollNext
    \/ JsMeasureInitial
    \/ JsTest
    \/ JsScrollToBottom
    \/ JsSettle
    \/ JsMeasure
    \/ JsOpRaises

SpecScrollAny == ScrollAnyInit /\ [][ScrollAnyNext]_vars

\* C25 (as claimed): the loop is left only when two consecutive measurements
\* are equal: whenever it has been left after a measurement, it was left by
\* the equality test with the last two measurements equal; on a page without
\* end it is never left.
C25_ExitsOnlyOnEqualMeasurements ==
    /\ (scpc = "done" /\ steps >= 1) => (exitBy = "break" /\ new_height = prev_height)
    /\ (pageKind = EndlessPage /\ steps >= 1) => scpc # "done"

\* C25 (amended): the loop's own exit is taken only when the last two
\* measurements are equal, so never on a page without end; the one other way
\* out of the loop is an exception raised by a page operation.
C25_OwnExitOnlyOnEqualMeasurements ==
    /\ exitBy = "break" => /\ new_height = prev_height
                           /\ steps >= 1
                           /\ pageKind # EndlessPage
    /\ scpc = "done" => exitBy \in {"break", "exception"}
    /\ exitBy = "exception" => scpc = "done"

\* C25 witness: on a page without end the loop measured a larger extent
\* three times and went on, and was then left by an exception.
C25_Witness ==
    /\ pageKind = EndlessPage
    /\ steps = 3
    /\ new_height = InitialHeight + 3
    /\ scpc = "done"
    /\ exitBy = "exception"

(***************************************************************************)
(* The tests that tell a logged-in page from another: check_login_status   *)
(* and perform_login of crawler.py (js_code run in the page) and of        *)
(* linkedin_jobs.py and linkedin_login.py (tests of page.url). A URL is a  *)
(* sequence of tokens: every '/' of its path is a token of its own, and    *)
(* the words feed and mynetwork are tokens wherever they occur.            *)
(***************************************************************************)
notClassVars == <<crawlVars, dedupVars, sessionVars, entryVars, scrollVars, extractVars,
                  retryVars, releaseVars, lateVars>>

Scripts == {"crawler", "linkedin_jobs", "linkedin_login"}

\* The pages the two tests can be looking at: the feed with or without its
\* updates and identity module rendered, the network page, a login page with
\* or without its form rendered, the security checkpoint, and three further
\* pages whose URL has the word feed or mynetwork in it.
PageStates ==
    {[url |-> FeedUrl, username |-> FALSE, feed_update |-> u, identity |-> m] :
        u \in BOOLEAN, m \in BOOLEAN}
    \cup {[url |-> MyNetworkUrl, username |-> FALSE, feed_update |-> FALSE, identity |-> m] :
        m \in BOOLEAN}
    \cup {[url |-> l, username |-> f, feed_update |-> FALSE, identity |-> FALSE] :
        l \in {LoginUrl, LoginRedirectUrl}, f \in BOOLEAN}
    \cup {[url |-> l, username |-> FALSE, feed_update |-> FALSE, identity |-> FALSE] :
        l \in {CheckpointUrl, FeedQueryUrl, FeedbackUrl, MyNetworkGrowUrl}}

\* currentUrl.includes('/feed/'): the word occurs as a path segment closed by '/'.
IncludesSegment(url, word) ==
    \E k \in 1..(Len(url) - 2) : url[k] = "/" /\ url[k + 1] = word /\ url[k + 2] = "/"

\* The js_code of check_login_status (crawler.py): Promise.race of the two
\* waitForSelector resolves when '.feed-shared-update-v2' or '#username' is
\* there within the timeout and rejects otherwise (isLoggedIn: false); when
\* it resolved, isLoggedIn is !document.querySelector('#username').
JsIsLoggedInCheck(p) ==
    IF p.feed_update \/ p.username THEN ~p.username ELSE FALSE

\* The isLoggedIn constant the js_code of perform_login (crawler.py)
\* computes after the form was submitted.
JsIsLoggedInLogin(p) ==
    \/ IncludesSegment(p.url, "feed")
    \/ IncludesSegment(p.url, "mynetwork")
    \/ p.identity

\* How the js_code of perform_login ends. After isLoggedIn it evaluates
\* logging.debug(..): `logging` is a name of the Python file, not of
\* JavaScript, so a ReferenceError is raised inside the try block; the catch
\* block evaluates logging.error(..), which raises again, and the snippet
\* ends by throwing without reaching either return. Of the names it refers
\* to, the JavaScript environment defines `page` and `document`.
JsLoginSnippet(p) ==
    LET globals == {"page", "document"}
    IN  IF "logging" \in globals
        THEN [threw |-> FALSE, success |-> JsIsLoggedInLogin(p)]
        ELSE [threw |-> TRUE, success |-> FALSE]

\* return 'feed' in page.url or 'mynetwork' in page.url   (check_login_status)
UrlCheck(p) == InUrl("feed", p.url) \/ InUrl("mynetwork", p.url)

\* if 'feed' in page.url or 'mynetwork' in page.url: ... return True   (perform_login)
UrlLogin(p) == InUrl("feed", p.url) \/ InUrl("mynetwork", p.url)

\* What check_login_status returns for the page.
CheckVerdict(s, p, success) ==
    IF s = "crawler" THEN success /\ JsIsLoggedInCheck(p) ELSE UrlCheck(p)

\* What perform_login returns for the page it finds after the submit. In
\* crawler.py: result.success and result.metadata.get('success', False),
\* where the metadata has no 'success' when the snippet threw.
LoginVerdict(s, p, success) ==
    IF s = "crawler"
    THEN success /\ ~JsLoginSnippet(p).threw /\ JsLoginSnippet(p).success
    ELSE UrlLogin(p)

AsVerdict(b) == IF b THEN "true" ELSE "false"

ClassInit ==
    /\ CrawlIdle
    /\ DedupIdle
    /\ SessionIdle
    /\ EntryIdle
    /\ ScrollIdle
    /\ ExtractIdle
    /\ RetryIdle
    /\ ReleaseIdle
    /\ LateIdle
    /\ script \in Scripts
    /\ pageState \in PageStates
    /\ arun_success \in (IF script = "crawler" THEN BOOLEAN ELSE {TRUE})
    /\ check_verdict = "unset"
    /\ login_verdict = "unset"

\* check_login_status looks at the page.
CheckClassifies ==
    /\ script # "none"
    /\ check_verdict = "unset"
    /\ check_verdict' = AsVerdict(CheckVerdict(script, pageState, arun_success))
    /\ UNCHANGED <<script, pageState, arun_success, login_verdict>>
    /\ UNCHANGED notClassVars

\* perform_login looks at the page.
LoginClassifies ==
    /\ script # "none"
    /\ login_verdict = "unset"
    /\ login_verdict' = AsVerdict(LoginVerdict(script, pageState, arun_success))
    /\ UNCHANGED <<script, pageState, arun_success, check_verdict>>
    /\ UNCHANGED notClassVars

ClassNext == CheckClassifies \/ LoginClassifies

SpecClass == ClassInit /\ [][ClassNext]_vars

BothClassified == check_verdict # "unset" /\ login_verdict # "unset"

\* The two tests of linkedin_jobs.py and those of linkedin_login.py agree on every page.
UrlTestsAgree == (BothClassified /\ script # "crawler") => check_verdict = login_verdict

\* C27 (as claimed): on every page the test of the stored session and the
\* test after the login come to the same verdict.
C27_SameLandingCheck == BothClassified => check_verdict = login_verdict

(***************************************************************************)
(* extract_linkedin_profiles on one entry whose title is a name, ' - ',    *)
(* and a designation made of words joined by the separators ' at ',        *)
(* ' AT ' and ' @ ', or a name alone.                                      *)
(***************************************************************************)
MaxSeparators == 2

DesignationWords == {"HR", "Acme"}
Separators == {" at ", " AT ", " @ "}

\* The designations with n separators.
RECURSIVE Designations(_)
Designations(n) ==
    IF n = 0 THEN {<<w>> : w \in DesignationWords}
    ELSE {d \o <<s, w>> : d \in Designations(n - 1), s \in Separators, w \in DesignationWords}

TitlesWithDesignation ==
    {<<"Jane Doe", " - ">> \o d : d \in UNION {Designations(n) : n \in 0..MaxSeparators}}

ExtractTitlesInit ==
    /\ CrawlIdle
    /\ DedupIdle
    /\ SessionIdle
    /\ EntryIdle
    /\ ScrollIdle
    /\ RetryIdle
    /\ MoreIdle
    /\ \E t \in TitlesWithDesignation \cup {TitleNameOnly} :
          entries = <<[host |-> BingHost, url |-> LinkedInUrl, title |-> t, after |-> <<>>]>>
    /\ markdown_content = Concat(entries)
    /\ profiles = <<>>
    /\ epc = "call"

SpecExtractTitles == ExtractTitlesInit /\ [][ExtractNext]_vars

\* The positions of the separator sep in d, letter case ignored.
SeparatorsAt(d, sep) == {k \in 1..Len(d) : LowerTok(d[k]) = sep}

Last(S) == CHOOSE k \in S : \A j \in S : j <= k

\* The company the claim gives for a designation.
ClaimedCompany(d) ==
    IF SeparatorsAt(d, " at ") # {}
    THEN SubSeq(d, Last(SeparatorsAt(d, " at ")) + 1, Len(d))
    ELSE IF SeparatorsAt(d, " @ ") # {}
    THEN SubSeq(d, Last(SeparatorsAt(d, " @ ")) + 1, Len(d))
    ELSE NotSpecified

\* C29 (as claimed): the company of a record is the text after the last
\* ' at ' of its designation, in any letter case, else after the last ' @ ',
\* else 'Not specified'; it is never the whole designation.
C29_CompanyIsTextAfterSeparator ==
    (epc = "returned" /\ Len(profiles) = 1) =>
        /\ profiles[1].company = ClaimedCompany(profiles[1].designation)
        /\ profiles[1].company # profiles[1].designation

\* With ' at ' in lower case only, and ' @ ', the company is as claimed.
CompanyAsClaimedForLowerCase ==
    (epc = "returned" /\ Len(profiles) = 1 /\ " AT " \notin Range(profiles[1].designation)) =>
        /\ profiles[1].company = ClaimedCompany(profiles[1].designation)
        /\ profiles[1].company # profiles[1].designation

(***************************************************************************)
(* save_profiles_to_csv of google_search.py, applied to the list that      *)
(* extract_linkedin_profiles returned. The function computes the Company   *)
(* column from the characters of the designation, so the designation and   *)
(* the company are spelled out: a string is a sequence of characters.      *)
(***************************************************************************)
UpperLetters == <<"A", "B", "C", "D", "E", "F", "G", "H", "I", "J", "K", "L", "M",
                  "N", "O", "P", "Q", "R", "S", "T", "U", "V", "W", "X", "Y", "Z">>
LowerLetters == <<"a", "b", "c", "d", "e", "f", "g", "h", "i", "j", "k", "l", "m",
                  "n", "o", "p", "q", "r", "s", "t", "u", "v", "w", "x", "y", "z">>

IsUpper(c) == \E k \in 1..26 : UpperLetters[k] = c
IsLower(c) == \E k \in 1..26 : LowerLetters[k] = c
IsLetter(c) == IsUpper(c) \/ IsLower(c)

\* c.lower() and c.upper() of one character
LowerChar(c) == IF IsUpper(c) THEN LowerLetters[CHOOSE k \in 1..26 : UpperLetters[k] = c] ELSE c
UpperChar(c) == IF IsLower(c) THEN UpperLetters[CHOOSE k \in 1..26 : LowerLetters[k] = c] ELSE c

\* The characters of the tokens a designation or a company is made of.
CharsOfTok(tok) ==
    CASE tok = "HR" -> <<"H", "R">>
      [] tok = "Acme" -> <<"A", "c", "m", "e">>
      [] tok = " at " -> <<" ", "a", "t", " ">>
      [] tok = " AT " -> <<" ", "A", "T", " ">>
      [] tok = " @ " -> <<" ", "@", " ">>
      [] tok = "HR Professional" ->
            <<"H", "R", " ", "P", "r", "o", "f", "e", "s", "s", "i", "o", "n", "a", "l">>
      [] tok = "Not specified" ->
            <<"N", "o", "t", " ", "s", "p", "e", "c", "i", "f", "i", "e", "d">>

RECURSIVE CharsOf(_)
CharsOf(s) == IF s = <<>> THEN <<>> ELSE CharsOfTok(Head(s)) \o CharsOf(Tail(s))

\* s.lower()
LowerStr(s) == [k \in 1..Len(s) |-> LowerChar(s[k])]

\* x in s, and where x occurs first in s
HasSub(s, x) == \E p \in 1..(Len(s) - Len(x) + 1) : SubSeq(s, p, p + Len(x) - 1) = x
FirstSub(s, x) ==
    CHOOSE p \in 1..(Len(s) - Len(x) + 1) :
        /\ SubSeq(s, p, p + Len(x) - 1) = x
        /\ \A q \in 1..(p - 1) : SubSeq(s, q, q + Len(x) - 1) # x

\* s.split(x)[-1]
RECURSIVE SplitLast(_, _)
SplitLast(s, x) ==
    IF HasSub(s, x) THEN SplitLast(SubSeq(s, FirstSub(s, x) + Len(x), Len(s)), x) ELSE s

\* s.title(): a letter after a letter in lower case, any other letter in upper case.
TitleStr(s) ==
    [k \in 1..Len(s) |-> IF k > 1 /\ IsLetter(s[k - 1]) THEN LowerChar(s[k])
                                                      ELSE UpperChar(s[k])]

\* 'at '
AtSpace == <<"a", "t", " ">>

\* The value of the local company of save_profiles_to_csv for one profile.
CsvCompany(profile) ==
    LET designation == CharsOf(profile.designation)
    IN  IF HasSub(LowerStr(designation), AtSpace)
        THEN TitleStr(Strip(SplitLast(LowerStr(designation), AtSpace), Whitespace))
        ELSE CharsOf(profile.company)

\* description.replace('\n', ' ')
ReplaceNewlines(s) == [k \in 1..Len(s) |-> IF s[k] = "\n" THEN " " ELSE s[k]]

\* The row writer.writerow is given for one profile (without the search query).
RowOf(profile) ==
    [name |-> profile.name,
     designation |-> CharsOf(profile.designation),
     company |-> CsvCompany(profile),
     connections |-> profile.connections,
     url |-> profile.url,
     description |-> ReplaceNewlines(profile.description)]

\* save_profiles_to_csv(profiles, search_query) with the list the extractor returned
SaveProfilesToCsv ==
    /\ epc = "returned"
    /\ rows' = [k \in 1..Len(profiles) |-> RowOf(profiles[k])]
    /\ epc' = "saved"
    /\ UNCHANGED <<entries, markdown_content, profiles>>
    /\ UNCHANGED <<crawlVars, dedupVars, sessionVars, entryVars, scrollVars, retryVars,
                   releaseVars, classVars, flowVars>>

ExportNext == ExtractCall \/ SaveProfilesToCsv

SpecExport == ExtractTitlesInit /\ [][ExportNext]_vars

\* C37 (as claimed): the Company value that save_profiles_to_csv writes for a
\* record is the company that extract_linkedin_profiles derived for it.
C37_ExportKeepsCompany ==
    epc = "saved" =>
        \A k \in 1..Len(rows) : rows[k].company = CharsOf(profiles[k].company)

\* The other columns are the fields of the record, the description with its
\* line breaks replaced.
ExportKeepsOtherFields ==
    epc = "saved" =>
        /\ Len(rows) = Len(profiles)
        /\ \A k \in 1..Len(rows) :
              /\ rows[k].name = profiles[k].name
              /\ rows[k].designation = CharsOf(profiles[k].designation)
              /\ rows[k].connections = profiles[k].connections
              /\ rows[k].url = profiles[k].url

\* The company is kept when the designation has no 'at ' in any letter case.
ExportKeepsCompanyWithoutAt ==
    epc = "saved" =>
        \A k \in 1..Len(rows) :
            ~HasSub(LowerStr(CharsOf(profiles[k].designation)), AtSpace)
            => rows[k].company = CharsOf(profiles[k].company)

(***************************************************************************)
(* One run of LinkedInJobScraper.scrape_jobs (linkedin_jobs.py) or of      *)
(* LinkedInScraper.scrape_profiles (linkedin_login.py) inside its try      *)
(* block: cookies, session check, login, the branch on page.url, the       *)
(* navigation to the target, scroll_page, query_selector_all and the loop  *)
(* over the elements. The two functions share the text up to the loop.     *)
(***************************************************************************)
notFlowVars == <<crawlVars, dedupVars, sessionVars, entryVars, scrollVars, extractVars,
                 retryVars, releaseVars, classVars, exportVars>>

FlowFns == {"scrape_jobs", "scrape_profiles"}

\* batch_size = 5
batch_size == 5

\* The largest number of job elements on the page, of profile elements on the
\* page, and the largest max_profiles.
MaxJobs == 6
MaxFlowElements == 2
MaxFlowProfiles == 2

\* Where the site can leave the page, and the target of the run.
FlowSiteUrls == SiteUrls

\* The profile elements of the pages of this part.
FlowElements ==
    {[anchor |-> FALSE, hasHref |-> FALSE, href |-> <<>>],
     [anchor |-> TRUE, hasHref |-> TRUE, href |-> HrefA],
     [anchor |-> TRUE, hasHref |-> TRUE, href |-> HrefATrk1]}

\* 'feed' in page.url or 'mynetwork' in page.url
LandingTest(url) == OnLandingSurface(url)

FlowInit ==
    /\ CrawlIdle
    /\ DedupIdle
    /\ SessionIdle
    /\ EntryIdle
    /\ ScrollIdle
    /\ ExtractIdle
    /\ RetryIdle
    /\ ReleaseIdle
    /\ ClassIdle
    /\ ExportIdle
    /\ flow_fn \in FlowFns
    /\ fpc = "load"
    /\ flowUrl = BlankUrl
    /\ auth_returns = <<>>
    /\ stages = <<>>
    /\ page_elements = <<>>
    /\ flow_max \in (IF flow_fn = "scrape_profiles" THEN 1..MaxFlowProfiles ELSE {0})
    /\ job_i = 0
    /\ jobs_data = <<>>
    /\ extracted = <<>>
    /\ flow_urls = {}
    /\ tested = {}
    /\ emitted = <<>>

\* cookies_loaded = await self.load_cookies(context)
FlowLoadCookies(loaded) ==
    /\ fpc = "load"
    /\ fpc' = IF loaded THEN "check" ELSE "login"
    /\ UNCHANGED <<flow_fn, flowUrl, auth_returns, stages, page_elements, flow_max, job_i,
                   jobs_data, extracted, flow_urls, tested, emitted>>
    /\ UNCHANGED notFlowVars

\* if await self.check_login_status(page): goto the feed and test page.url;
\* an exception of the page gives False.
FlowCheckLoginStatus(raises, url) ==
    /\ fpc = "check"
    /\ ~raises => url \in FlowSiteUrls
    /\ flowUrl' = url
    /\ LET r == ~raises /\ LandingTest(url)
       IN  /\ auth_returns' = Append(auth_returns, [step |-> "check_login_status", result |-> r])
           /\ fpc' = IF r THEN "branch" ELSE "login"
    /\ UNCHANGED <<flow_fn, stages, page_elements, flow_max, job_i, jobs_data, extracted,
                   flow_urls, tested, emitted>>
    /\ UNCHANGED notFlowVars

\* await self.perform_login(page, context): the value it returns is dropped
\* by the caller. save_cookies, called when the test passed, lets nothing out.
FlowPerformLogin(raises, url) ==
    /\ fpc = "login"
    /\ ~raises => url \in FlowSiteUrls
    /\ flowUrl' = url
    /\ auth_returns' = Append(auth_returns, [step |-> "perform_login",
                                            result |-> ~raises /\ LandingTest(url)])
    /\ fpc' = "branch"
    /\ UNCHANGED <<flow_fn, stages, page_elements, flow_max, job_i, jobs_data, extracted,
                   flow_urls, tested, emitted>>
    /\ UNCHANGED notFlowVars

\* if 'feed' in page.url or 'mynetwork' in page.url: ... else: "Login failed"
FlowBranch ==
    /\ fpc = "branch"
    /\ IF LandingTest(flowUrl)
       THEN /\ fpc' = "goto"
            /\ UNCHANGED stages
       ELSE /\ fpc' = "end"
            /\ stages' = Append(stages, "login_failed")
    /\ UNCHANGED <<flow_fn, flowUrl, auth_returns, page_elements, flow_max, job_i,
                   jobs_data, extracted, flow_urls, tested, emitted>>
    /\ UNCHANGED notFlowVars

\* await page.goto(job_url / search_url, ..) and the wait after it (in
\* scrape_profiles also wait_for_selector of the results container); an
\* exception goes to the except clause of the try block and ends the run,
\* with the page where it was or on the target.
FlowGoto(raises, url) ==
    /\ fpc = "goto"
    /\ ~raises => url = TargetUrl
    /\ stages' = Append(stages, "navigate")
    /\ flowUrl' = url
    /\ fpc' = IF raises THEN "end" ELSE "scroll"
    /\ UNCHANGED <<flow_fn, auth_returns, page_elements, flow_max, job_i, jobs_data,
                   extracted, flow_urls, tested, emitted>>
    /\ UNCHANGED notFlowVars

\* await self.scroll_page(page) is entered.
FlowScrollBegin ==
    /\ fpc = "scroll"
    /\ fpc' = "scrolling"
    /\ stages' = Append(stages, "expand_begin")
    /\ UNCHANGED <<flow_fn, flowUrl, auth_returns, page_elements, flow_max, job_i,
                   jobs_data, extracted, flow_urls, tested, emitted>>
    /\ UNCHANGED notFlowVars

\* scroll_page returns: by its break or from its except clause.
FlowScrollEnd ==
    /\ fpc = "scrolling"
    /\ fpc' = "query"
    /\ stages' = Append(stages, "expand_end")
    /\ UNCHANGED <<flow_fn, flowUrl, auth_returns, page_elements, flow_max, job_i,
                   jobs_data, extracted, flow_urls, tested, emitted>>
    /\ UNCHANGED notFlowVars

\* job_elements / profile_elements = await page.query_selector_all(..)
FlowQuery(els, raises) ==
    /\ fpc = "query"
    /\ IF raises
       THEN /\ fpc' = "end"
            /\ els = <<>>
            /\ UNCHANGED <<stages, page_elements, extracted>>
       ELSE /\ fpc' = IF flow_fn = "scrape_jobs" THEN "window" ELSE "ploop"
            /\ stages' = Append(stages, "query")
            /\ page_elements' = els
            /\ extracted' = [k \in 1..Len(els) |-> [n |-> 0, data |-> "unset"]]
    /\ UNCHANGED <<flow_fn, flowUrl, auth_returns, flow_max, job_i, jobs_data, flow_urls,
                   tested, emitted>>
    /\ UNCHANGED notFlowVars

\* batch = job_elements[i:i + batch_size], as the positions of its elements
job_batch == BatchAt(job_i, batch_size, Len(page_elements))

\* tasks = [self.extract_job_info(elem) for elem in batch], handed to gather
FlowCreateTasks ==
    /\ fpc = "window"
    /\ job_i < Len(page_elements)
    /\ jobs_data' = [k \in 1..Len(job_batch) |-> "pending"]
    /\ fpc' = "gather"
    /\ UNCHANGED <<flow_fn, flowUrl, auth_returns, stages, page_elements, flow_max, job_i,
                   extracted, flow_urls, tested, emitted>>
    /\ UNCHANGED notFlowVars

\* asyncio.gather starts the tasks in the order of the batch: extract_job_info
\* of the k-th element is entered and calls job_elem.evaluate, where it waits
\* for the answer of the browser.
FlowStartJob(k) ==
    /\ fpc = "gather"
    /\ k \in 1..Len(jobs_data)
    /\ extracted[job_batch[k]].n = 0
    /\ \A j \in 1..(k - 1) : extracted[job_batch[j]].n = 1
    /\ extracted' = [extracted EXCEPT ![job_batch[k]].n = @ + 1]
    /\ UNCHANGED <<flow_fn, fpc, flowUrl, auth_returns, stages, page_elements, flow_max,
                   job_i, jobs_data, flow_urls, tested, emitted>>
    /\ UNCHANGED notFlowVars

\* extract_job_info of the k-th element returns. Either its task waited in
\* the evaluate (waited): every task of the batch was started before the
\* event loop comes back to a waiting one, the answers then arrive in any
\* order, and the evaluate returns the data, or raises and the function
\* returns None. Or the evaluate raises at the call, without waiting: the
\* task is entered and returns None in one turn, before the next task of the
\* batch is started.
FlowExtractJob(k, fails, waited) ==
    /\ fpc = "gather"
    /\ k \in 1..Len(jobs_data)
    /\ jobs_data[k] = "pending"
    /\ IF waited
       THEN \A j \in 1..Len(jobs_data) : extracted[job_batch[j]].n = 1
       ELSE /\ fails
            /\ extracted[job_batch[k]].n = 0
            /\ \A j \in 1..(k - 1) : extracted[job_batch[j]].n = 1
    /\ jobs_data' = [jobs_data EXCEPT ![k] = IF fails THEN "None" ELSE "data"]
    /\ extracted' = [extracted EXCEPT ![job_batch[k]] =
                        [n |-> 1, data |-> IF fails THEN "None" ELSE "data"]]
    /\ UNCHANGED <<flow_fn, fpc, flowUrl, auth_returns, stages, page_elements, flow_max,
                   job_i, flow_urls, tested, emitted>>
    /\ UNCHANGED notFlowVars

\* Mutation: the numbering starts again in every window.
JobIndexInWindow(start, k) == k

\* for idx, job_data in enumerate(jobs_data, i + 1): idx of the k-th item
JobIndex(start, k) == (start + 1) + (k - 1)

\* The jobs the for loop over jobs_data prints: those that are not None.
RECURSIVE PrintedJobs(_, _, _, _)
PrintedJobs(data, b, start, k) ==
    IF k > Len(data) THEN <<>>
    ELSE (IF data[k] = "data" THEN <<[idx |-> JobIndex(start, k), elem |-> b[k]]>>
                              ELSE <<>>)
         \o PrintedJobs(data, b, start, k + 1)

\* gather has returned: print the jobs of the batch, sleep, next value of i.
FlowPrintWindow ==
    /\ fpc = "gather"
    /\ \A k \in 1..Len(jobs_data) : jobs_data[k] # "pending"
    /\ emitted' = emitted \o PrintedJobs(jobs_data, job_batch, job_i, 1)
    /\ job_i' = job_i + batch_size
    /\ fpc' = "window"
    /\ UNCHANGED <<flow_fn, flowUrl, auth_returns, stages, page_elements, flow_max,
                   jobs_data, extracted, flow_urls, tested>>
    /\ UNCHANGED notFlowVars

\* range(0, len(job_elements), batch_size) is exhausted.
FlowJobsDone ==
    /\ fpc = "window"
    /\ job_i >= Len(page_elements)
    /\ fpc' = "end"
    /\ UNCHANGED <<flow_fn, flowUrl, auth_returns, stages, page_elements, flow_max, job_i,
                   jobs_data, extracted, flow_urls, tested, emitted>>
    /\ UNCHANGED notFlowVars

\* One iteration of `for profile_elem in profile_elements[:max_profiles]` of
\* scrape_profiles, as HandleElement above: the anchor, the href, the
\* duplicate test on the URL without its query string, the evaluations, the print.
FlowProfileElement(exc) ==
    /\ fpc = "ploop"
    /\ job_i < Min(flow_max, Len(page_elements))
    /\ LET e == page_elements[job_i + 1]
           key == StripQuery(e.href)
       IN  /\ extracted' = [extracted EXCEPT ![job_i + 1] =
                               [n |-> @.n + 1,
                                data |-> IF /\ exc = "none" /\ e.anchor /\ e.hasHref
                                            /\ e.href # <<>> /\ key \notin flow_urls
                                         THEN "data" ELSE "None"]]
           /\ IF exc = "query_selector" \/ ~e.anchor \/ ~e.hasHref \/ e.href = <<>>
              THEN UNCHANGED <<flow_urls, tested, emitted>>
              ELSE /\ tested' = tested \cup {job_i + 1}
                   /\ IF key \in flow_urls
                      THEN UNCHANGED <<flow_urls, emitted>>
                      ELSE /\ flow_urls' = flow_urls \cup {key}
                           /\ IF exc = "evaluate"
                              THEN UNCHANGED emitted
                              ELSE emitted' = Append(emitted, [idx |-> Len(emitted) + 1,
                                                              elem |-> job_i + 1])
    /\ job_i' = job_i + 1
    /\ UNCHANGED <<flow_fn, fpc, flowUrl, auth_returns, stages, page_elements, flow_max,
                   jobs_data>>
    /\ UNCHANGED notFlowVars

\* The slice of profile elements is exhausted.
FlowProfilesDone ==
    /\ fpc = "ploop"
    /\ job_i >= Min(flow_max, Len(page_elements))
    /\ fpc' = "end"
    /\ UNCHANGED <<flow_fn, flowUrl, auth_returns, stages, page_elements, flow_max, job_i,
                   jobs_data, extracted, flow_urls, tested, emitted>>
    /\ UNCHANGED notFlowVars

\* The lists query_selector_all can return.
ElementLists ==
    IF flow_fn = "scrape_jobs"
    THEN {[k \in 1..n |-> "job"] : n \in 0..MaxJobs}
    ELSE SeqsUpTo(FlowElements, MaxFlowElements)

FlowNext ==
    \/ \E loaded \in BOOLEAN : FlowLoadCookies(loaded)
    \/ \E raises \in BOOLEAN : \E url \in FlowSiteUrls \cup {flowUrl} :
          FlowCheckLoginStatus(raises, url)
    \/ \E raises \in BOOLEAN : \E url \in FlowSiteUrls \cup {flowUrl} :
          FlowPerformLogin(raises, url)
    \/ FlowBranch
    \/ \E raises \in BOOLEAN : \E url \in {flowUrl, TargetUrl} : FlowGoto(raises, url)
    \/ FlowScrollBegin
    \/ FlowScrollEnd
    \/ \E els \in ElementLists : \E raises \in BOOLEAN : FlowQuery(els, raises)
    \/ FlowCreateTasks
    \/ \E k \in 1..batch_size : FlowStartJob(k)
    \/ \E k \in 1..batch_size : \E fails, waited \in BOOLEAN :
          FlowExtractJob(k, fails, waited)
    \/ FlowPrintWindow
    \/ FlowJobsDone
    \/ \E exc \in {"none", "query_selector", "evaluate"} : FlowProfileElement(exc)
    \/ FlowProfilesDone

SpecFlow == FlowInit /\ [][FlowNext]_vars

(***************************************************************************)
(* Claims about the order of the steps of a run and about the windows of   *)
(* scrape_jobs, under SpecFlow.                                            *)
(***************************************************************************)
\* The run has navigated to its target; an extraction has been started.
Navigated == \E n \in 1..Len(stages) : stages[n] = "navigate"
ExtractionStarted == \E k \in 1..Len(extracted) : extracted[k].n > 0

\* The last authentication step of the run returned True.
SettledAuthenticated ==
    /\ auth_returns # <<>>
    /\ auth_returns[Len(auth_returns)].result

\* The loader runs after the navigation and has returned before the elements
\* are asked for and before any extraction starts.
LoaderBetweenNavigationAndExtraction ==
    /\ ExtractionStarted =>
          /\ Len(stages) = 4
          /\ stages = <<"navigate", "expand_begin", "expand_end", "query">>
    /\ \A n \in 1..Len(stages) : stages[n] = "expand_begin" => (n > 1 /\ stages[n - 1] = "navigate")

\* In scrape_profiles every printed record went through the duplicate test.
ProfilesPassDuplicateTest ==
    flow_fn = "scrape_profiles" => \A a \in 1..Len(emitted) : emitted[a].elem \in tested

\* C31 (as claimed): the steps of a run happen in the data-flow order: the
\* target is navigated to only after authentication was settled as
\* Authenticated, the loader runs after the navigation and has returned
\* before any element is extracted, and every record emitted has passed the
\* duplicate test.
C31_StepsInDataFlowOrder ==
    /\ Navigated => SettledAuthenticated
    /\ LoaderBetweenNavigationAndExtraction
    /\ \A a \in 1..Len(emitted) : emitted[a].elem \in tested

\* The job elements whose extraction gave data, among the first n.
JobsWithData(n) == {k \in 1..Min(n, Len(extracted)) : extracted[k].data = "data"}

\* C36: in scrape_jobs the job elements are handled in windows of 5 in page
\* order: a window is the next 5 elements (fewer at the end), no extraction
\* is started twice, and when a window is done each of its elements was
\* extracted once; the jobs printed are, in page order, exactly the elements
\* whose extraction gave data, whatever became of the others of the window or
\* of earlier windows, each with its 1-based position in the page list.
C36_JobsInWindowsOfFive ==
    flow_fn = "scrape_jobs" =>
        /\ job_i % 5 = 0
        /\ fpc = "gather" =>
              /\ Len(jobs_data) = Min(5, Len(page_elements) - job_i)
              /\ \A k \in 1..Len(jobs_data) :
                    /\ (jobs_data[k] = "pending") <=> (extracted[job_i + k].data = "unset")
                    /\ (jobs_data[k] # "pending") => (extracted[job_i + k].n = 1)
        /\ \A k \in 1..Len(extracted) :
              /\ extracted[k].n <= 1
              /\ (extracted[k].n = 0) => (extracted[k].data = "unset")
              /\ (fpc \in {"window", "end"} /\ k <= job_i) => extracted[k].n = 1
              /\ (k > job_i + 5) => extracted[k].n = 0
        /\ (fpc = "end" /\ Len(stages) = 4) =>
              \A k \in 1..Len(page_elements) : extracted[k].n = 1
        /\ fpc \in {"window", "end"} =>
              {emitted[a].elem : a \in 1..Len(emitted)} = JobsWithData(job_i)
        /\ \A a \in 1..Len(emitted) :
              /\ emitted[a].idx = emitted[a].elem
              /\ \A b \in 1..(a - 1) : emitted[b].elem < emitted[a].elem

\* C36 witness: a page of six job elements; the extraction of the second
\* failed; the run has ended with the five others printed, the last as Job 6.
C36_Witness ==
    /\ flow_fn = "scrape_jobs"
    /\ fpc = "end"
    /\ Len(page_elements) = 6
    /\ extracted[2].data = "None"
    /\ Len(emitted) = 5
    /\ emitted[1] = [idx |-> 1, elem |-> 1]
    /\ emitted[2] = [idx |-> 3, elem |-> 3]
    /\ emitted[5] = [idx |-> 6, elem |-> 6]

====
